---- MODULE Spec2Model ----
(***************************************************************************)
(* A model of django_base_model: the lifecycle wrapper that BaseModel and  *)
(* BaseQuerySet put around the ORM's save / update / delete primitives.    *)
(*                                                                         *)
(* Every public call is one action.  The call is computed by an operator   *)
(* that threads a call state  [store, next, trace, err]  through the       *)
(* handler's statements in source order; `trace` records every hook,       *)
(* validation, write, removal and notification the call performed, and     *)
(* `err` the exception that ended it.  transaction.atomic is the operator  *)
(* Atomic: a call that raised leaves the store as it found it.             *)
(***************************************************************************)
EXTENDS Integers, Sequences, FiniteSets, TLC

\* ------------------------------------------------------------------------
\* Bounds of the model
\* ------------------------------------------------------------------------

\* Primary keys the store's id sequence can hand out.
MaxId == 3

\* Instances in one bulk_create batch.
MaxBatch == 2

\* Concurrent callers of update_or_create.
NCallers == 2

\* Primary keys handed out while the cascade trees of the delete scenarios
\* are built.
MaxTreeId == 4

\* The readings of the clock in the sequences of timed saves.
MaxClock == 3

\* The apps of a migration set, the migrations of an app and the operations
\* of a migration.
MaxApps == 2
MaxMigrations == 2
MaxOperations == 2

\* The objects handed to _bulk_update, and the largest per-statement limit
\* of the store (and batch_size) tried.
MaxObjs == 3
MaxLimit == 3

\* The rows of the stores on which the cascade recursion is followed call by
\* call.
MaxNodes == 3

\* ------------------------------------------------------------------------
\* Schema: the entity types and the relations between them
\* ------------------------------------------------------------------------

\* Team, Player and PlayerTraining are the types of tests/models.py.  Note is
\* a type that does not derive from BaseModel, Attachment a BaseModel type
\* hanging off it, and Tag a BaseModel type with a many-to-many field and a
\* second manager.
Types == {"Team", "Player", "PlayerTraining", "Note", "Attachment", "Tag"}

\* issubclass(model, BaseModel)
IsBaseModel(t) == t # "Note"

\* len(self._meta.many_to_many) > 0
HasManyToMany(t) == t = "Tag"

\* len(self.model._meta.managers) > 1
HasSeveralManagers(t) == t = "Tag"

\* The reverse relations with on_delete = CASCADE, in the order of
\* _meta.related_objects: the child type, the type it points to, and whether
\* the relation is a OneToOneRel or a ManyToOneRel.
CascadeRels ==
    << [child |-> "Note",           parent |-> "Team",   kind |-> "many_to_one"],
       [child |-> "Player",         parent |-> "Team",   kind |-> "many_to_one"],
       [child |-> "PlayerTraining", parent |-> "Player", kind |-> "one_to_one"],
       [child |-> "Attachment",     parent |-> "Note",   kind |-> "many_to_one"] >>

\* The type a type's foreign key points to ("" when it has none).
ParentType(t) ==
    IF \E i \in DOMAIN CascadeRels : CascadeRels[i].child = t
    THEN (CHOOSE r \in {CascadeRels[i] : i \in DOMAIN CascadeRels} : r.child = t).parent
    ELSE ""

\* The types whose pre_delete / bulk_pre_delete refuse an active entity.
GuardedTypes == {"Player", "PlayerTraining", "Attachment"}

\* Field values.  The empty name is what full_clean rejects (blank field).
Names == {"a", ""}

\* Actors.  None is Python's None.
None == "None"
Users == {"alice"}

\* ------------------------------------------------------------------------
\* State
\* ------------------------------------------------------------------------

VARIABLES
    store,     \* the committed rows: a set of [id, type, parent, active, name]
    nextId,    \* the next primary key of the id sequence
    last,      \* the last public call: its inputs, trace, error and pre-state
    setup,     \* the scenario of the concurrent callers: unique index, seed row
    tx,        \* per concurrent caller: position, arguments, uncommitted rows
    locks      \* the row locks held: a set of <<row key, caller>>

vars == <<store, nextId, last, setup, tx, locks>>

Ids(s) == {r.id : r \in s}
Row(s, i) == CHOOSE r \in s : r.id = i
OfType(s, t) == {r \in s : r.type = t}

\* ------------------------------------------------------------------------
\* Call state and its primitives
\* ------------------------------------------------------------------------

\* What a call hands back when it returns no (obj, created) pair.
NoResult == [obj |-> 0, created |-> FALSE]

Begin(s, n) == [store |-> s, next |-> n, trace |-> <<>>, err |-> "", ret |-> NoResult]

Ok(st) == st.err = ""

\* An exception propagates: nothing after it in the handler runs.
Raise(st, e) == [st EXCEPT !.err = e]

\* Record a step of the handler.  `live` tells whether all its subjects were
\* rows of the store at that moment.
Emit(st, ev, sender, subj, user) ==
    [st EXCEPT !.trace = Append(@, [ev |-> ev, sender |-> sender, subj |-> subj,
                                     user |-> user,
                                     live |-> subj \subseteq Ids(st.store)])]

\* Mutant: a missing _base_log_user is not noticed.
ActorNeverMissing(o) == FALSE

\* kwargs.pop("_base_no_user", False); kwargs.pop("_base_log_user")
ActorMissing(o) == ~o.no_user /\ o.log_user = "unset"
ResolveUser(o) == IF o.no_user THEN None ELSE o.log_user

\* Mutant: the decorator is missing, what was written stays written.
AtomicNoRollback(before, st) == st

\* @transaction.atomic: an exception leaving the block rolls the store back.
Atomic(before, st) == IF Ok(st) THEN st ELSE [st EXCEPT !.store = before]

\* ------------------------------------------------------------------------
\* Validation
\* ------------------------------------------------------------------------

\* BaseModel.clean: the union of the errors of the type's clean_* methods.
\* Tag defines clean_name; the types of tests/models.py define none.
CleanErrors(inst) == IF inst.type = "Tag" /\ inst.name = "" THEN {"name"} ELSE {}

\* Model.full_clean: clean_fields (blank name), clean, validate_unique (a
\* one-to-one target that already has a partner).
OneToOneTaken(s, inst) ==
    \E i \in DOMAIN CascadeRels :
        /\ CascadeRels[i].child = inst.type
        /\ CascadeRels[i].kind = "one_to_one"
        /\ \E r \in s : r.type = inst.type /\ r.parent = inst.parent /\ r.id # inst.id

FullCleanFails(s, inst) ==
    inst.name = "" \/ CleanErrors(inst) # {} \/ OneToOneTaken(s, inst)

\* The clean_mode dispatch shared by save, update, bulk_create, bulk_update.
CleanMode(st, mode, insts, sender) ==
    IF mode = "full"
    THEN LET e == Emit(st, "full_clean", sender, {x.id : x \in insts}, None)
         IN IF \E x \in insts : FullCleanFails(st.store, x)
            THEN Raise(e, "ValidationError") ELSE e
    ELSE IF mode = "basic"
    THEN LET e == Emit(st, "clean", sender, {x.id : x \in insts}, None)
         IN IF \E x \in insts : CleanErrors(x) # {}
            THEN Raise(e, "ValidationError") ELSE e
    ELSE IF mode # "skip"
    THEN Raise(st, "ValueError:clean_mode")
    ELSE st

\* ------------------------------------------------------------------------
\* BaseModel.save
\* ------------------------------------------------------------------------

\* Mutant: the many-to-many guard is missing.
ManyToManyNeverChecked(t, o) == FALSE

\* skip_signal_send = kwargs.pop(..., None); the many-to-many guard.
ManyToManyUnacknowledged(t, o) == HasManyToMany(t) /\ o.skip_signal = "unset"

\* if not skip_signal_send  (None and False both send)
SendsSignal(o) == o.skip_signal # "true"

\* Mutant: every save counts as a first persist.
IsCreatedAlways(inst) == TRUE

\* is_created = self.pk is None
IsCreated(inst) == inst.id = 0

\* super().save(): INSERT a row under a fresh key, or UPDATE the row of the
\* instance's key (INSERT when no row has it).  A second partner for a
\* one-to-one target violates the unique index.
ModelSave(st, inst, fault) ==
    IF fault = "write" THEN Raise(st, "DatabaseError")
    ELSE IF OneToOneTaken(st.store, inst) THEN Raise(st, "IntegrityError")
    ELSE LET pk == IF inst.id = 0 THEN st.next ELSE inst.id
             row == [inst EXCEPT !.id = pk]
             kept == {r \in st.store : r.id # pk}
             w == [st EXCEPT !.store = kept \cup {row},
                             !.next = IF inst.id = 0 THEN @ + 1 ELSE @]
         IN Emit(w, "write", inst.type, {pk}, None)

SavePreHook(st, inst, o, fault) ==
    IF o.skip_pre THEN st
    ELSE LET e == Emit(st, "pre_save", inst.type, {inst.id}, ResolveUser(o))
         IN IF fault = "pre_save" THEN Raise(e, "HookError") ELSE e

SaveNotify(st, inst, pk, o, fault) ==
    IF ~SendsSignal(o) THEN st
    ELSE LET e == Emit(st, IF IsCreated(inst) THEN "create" ELSE "update",
                       inst.type, {pk}, ResolveUser(o))
         IN IF fault = "subscriber" THEN Raise(e, "SubscriberError") ELSE e

SavePostHook(st, inst, pk, o, fault) ==
    IF o.skip_post THEN st
    ELSE LET e == Emit(st, "post_save", inst.type, {pk}, ResolveUser(o))
         IN IF fault = "post_save" THEN Raise(e, "HookError") ELSE e

\* Mutant: the row is written before the instance is validated.
SaveBodyWriteFirst(st, inst, o, fault) ==
    IF ActorMissing(o) THEN Raise(st, "KeyError:log_user")
    ELSE IF ManyToManyUnacknowledged(inst.type, o) THEN Raise(st, "KeyError:skip_signal_send")
    ELSE
    LET s1 == SavePreHook(st, inst, o, fault)
        pk == IF inst.id = 0 THEN s1.next ELSE inst.id
        s2 == IF Ok(s1) THEN ModelSave(s1, inst, fault) ELSE s1
        s3 == IF Ok(s2) THEN CleanMode(s2, o.clean_mode, {inst}, inst.type) ELSE s2
        s4 == IF Ok(s3) THEN SaveNotify(s3, inst, pk, o, fault) ELSE s3
        s5 == IF Ok(s4) THEN SavePostHook(s4, inst, pk, o, fault) ELSE s4
    IN s5

\* The body of BaseModel.save, statement by statement.
SaveBody(st, inst, o, fault) ==
    IF ActorMissing(o) THEN Raise(st, "KeyError:log_user")
    ELSE IF ManyToManyUnacknowledged(inst.type, o) THEN Raise(st, "KeyError:skip_signal_send")
    ELSE
    LET s1 == SavePreHook(st, inst, o, fault)
        s2 == IF Ok(s1) THEN CleanMode(s1, o.clean_mode, {inst}, inst.type) ELSE s1
        pk == IF inst.id = 0 THEN s2.next ELSE inst.id
        s3 == IF Ok(s2) THEN ModelSave(s2, inst, fault) ELSE s2
        s4 == IF Ok(s3) THEN SaveNotify(s3, inst, pk, o, fault) ELSE s3
        s5 == IF Ok(s4) THEN SavePostHook(s4, inst, pk, o, fault) ELSE s4
    IN s5

ModelSaveCall(s, n, inst, o, fault) == Atomic(s, SaveBody(Begin(s, n), inst, o, fault))

\* ------------------------------------------------------------------------
\* BaseQuerySet.update and BaseQuerySet.bulk_create
\* ------------------------------------------------------------------------

\* A query set: the rows of a type, all of them ("*") or those of one name.
\* It is evaluated against the store each time it is iterated.
Members(s, qs) == {r \in s : r.type = qs.type /\ (qs.name = "*" \/ r.name = qs.name)}

\* super().update(name=value): one UPDATE over the rows that match now.
QuerySetUpdate(st, qs, value) ==
    LET hit == Members(st.store, qs)
        w == [st EXCEPT !.store = (@ \ hit) \cup {[r EXCEPT !.name = value] : r \in hit}]
    IN Emit(w, "write", qs.type, Ids(hit), None)

\* The body of BaseQuerySet.update, statement by statement.
UpdateBody(st, qs, value, o) ==
    IF ActorMissing(o) THEN Raise(st, "KeyError:log_user")
    ELSE IF ManyToManyUnacknowledged(qs.type, o) THEN Raise(st, "KeyError:skip_signal_send")
    ELSE
    LET user == ResolveUser(o)
        s1 == IF o.skip_pre THEN st
              ELSE Emit(st, "bulk_pre_save", qs.type, Ids(Members(st.store, qs)), user)
        s2 == QuerySetUpdate(s1, qs, value)
        s3 == CleanMode(s2, o.clean_mode, Members(s2.store, qs), qs.type)
        s4 == IF Ok(s3) /\ SendsSignal(o)
              THEN Emit(s3, "update", qs.type, Ids(Members(s3.store, qs)), user) ELSE s3
        s5 == IF Ok(s4) /\ ~o.skip_post
              THEN Emit(s4, "bulk_post_save", qs.type, Ids(Members(s4.store, qs)), user)
              ELSE s4
    IN s5

QuerySetUpdateCall(s, n, qs, value, o) == Atomic(s, UpdateBody(Begin(s, n), qs, value, o))

\* The instances of a batch with the keys the insert returns for them.
Inserted(t, names, first) ==
    {[id |-> first + i - 1, type |-> t, parent |-> 0, active |-> FALSE, name |-> names[i]] :
        i \in DOMAIN names}

\* super().bulk_create(objs): one INSERT of the whole batch.
QuerySetBulkCreate(st, t, names) ==
    LET rows == Inserted(t, names, st.next)
        w == [st EXCEPT !.store = @ \cup rows, !.next = @ + Len(names)]
    IN Emit(w, "write", t, Ids(rows), None)

\* The body of BaseQuerySet.bulk_create, statement by statement.  `manager`
\* is the _base_objects argument.
BulkCreateBody(st, t, names, o, manager) ==
    IF HasSeveralManagers(t) /\ manager = "unset" THEN Raise(st, "KeyError:objects")
    ELSE IF ActorMissing(o) THEN Raise(st, "KeyError:log_user")
    ELSE
    LET user == ResolveUser(o)
        s1 == IF o.skip_pre THEN st ELSE Emit(st, "bulk_pre_save", t, {0}, user)
        s2 == IF ManyToManyUnacknowledged(t, o)
              THEN Raise(s1, "KeyError:skip_signal_send")
              ELSE QuerySetBulkCreate(s1, t, names)
        objs == Inserted(t, names, st.next)
        s3 == IF Ok(s2) THEN CleanMode(s2, o.clean_mode, objs, t) ELSE s2
        s4 == IF Ok(s3) /\ SendsSignal(o)
              THEN Emit(s3, "bulk_create", t, Ids(objs), user) ELSE s3
        s5 == IF Ok(s4) /\ ~o.skip_post
              THEN Emit(s4, "bulk_post_save", t, Ids(objs), user) ELSE s4
    IN s5

QuerySetBulkCreateCall(s, n, t, names, o, manager) ==
    Atomic(s, BulkCreateBody(Begin(s, n), t, names, o, manager))

\* ------------------------------------------------------------------------
\* Cascade resolution and the ORM's own delete
\* ------------------------------------------------------------------------

RECURSIVE SeqOf(_)
\* The members of a set of keys in key order.
SeqOf(S) ==
    IF S = {} THEN <<>>
    ELSE LET m == CHOOSE x \in S : \A y \in S : x <= y
         IN <<m>> \o SeqOf(S \ {m})

RECURSIVE Dedup(_)
\* A sequence without its repetitions, first occurrences kept.
Dedup(q) ==
    IF q = <<>> THEN <<>>
    ELSE LET h == q[Len(q)]
             front == Dedup(SubSeq(q, 1, Len(q) - 1))
         IN IF \E i \in DOMAIN front : front[i] = h THEN front ELSE Append(front, h)

\* The rows a reverse relation of `row` resolves to.
RelatedOf(s, row, rel) ==
    {r \in s : r.type = rel.child /\ rel.parent = row.type /\ r.parent = row.id}

\* BaseModel._related_cascade_fields: the one-to-one relations that resolve
\* to an object, and the reverse foreign-key managers (always truthy).
RelatedCascadeFields(s, row) ==
    [one_to_one  |-> SelectSeq(CascadeRels, LAMBDA r :
                        r.parent = row.type /\ r.kind = "one_to_one"
                        /\ RelatedOf(s, row, r) # {}),
     many_to_one |-> SelectSeq(CascadeRels, LAMBDA r :
                        r.parent = row.type /\ r.kind = "many_to_one")]

\* pre_delete / bulk_pre_delete of the guarded types: an active entity is
\* not deleted.
PreDeleteRefuses(rows) == \E r \in rows : r.type \in GuardedTypes /\ r.active

\* Mutant: the cascade delete is told to skip its hooks and its notification.
CascadeOptionsSkipping(user) ==
    [no_user |-> FALSE, log_user |-> user, clean_mode |-> "full",
     skip_pre |-> TRUE, skip_post |-> TRUE, skip_signal |-> "true"]

\* Mutant: the cascade delete is called with _base_no_user instead of the
\* actor.
CascadeOptionsNoUser(user) ==
    [no_user |-> TRUE, log_user |-> "unset", clean_mode |-> "full",
     skip_pre |-> FALSE, skip_post |-> FALSE, skip_signal |-> "unset"]

\* The keyword arguments a cascade delete is called with: the actor alone.
CascadeOptions(user) ==
    [no_user |-> FALSE, log_user |-> user, clean_mode |-> "full",
     skip_pre |-> FALSE, skip_post |-> FALSE, skip_signal |-> "unset"]

RECURSIVE CollectorDelete(_, _, _)
\* Model.delete / QuerySet.delete of the ORM: the rows and everything the
\* database-level CASCADE reaches from them, dependents first, with none of
\* this library's hooks or notifications.
CollectorDelete(st, sender, ids) ==
    LET here == ids \cap Ids(st.store)
        kids == {r.id : r \in {x \in st.store : x.parent \in here}}
        below == IF kids = {} THEN st ELSE CollectorDelete(st, "", kids)
        gone == Emit(below, "remove", sender, here, None)
    IN IF here = {} THEN st
       ELSE [gone EXCEPT !.store = {r \in @ : r.id \notin here}]

RECURSIVE ModelDeleteBody(_, _, _), QuerySetDeleteBody(_, _, _, _),
          CascadeOneToOne(_, _, _, _), CascadeManyToOne(_, _, _, _),
          CascadeManyToOneRaw(_, _, _, _), CascadeGroups(_, _, _, _)

\* Mutant: the entity's own row is never deleted.
ModelDeleteRemoveNothing(st, row) == st

\* d = super().delete(*args, **kwargs)
ModelDeleteRemove(st, row) == CollectorDelete(st, row.type, {row.id})

\* BaseModel.delete under @transaction.atomic.
ModelDelete(st, id, o) == Atomic(st.store, ModelDeleteBody(st, id, o))

\* Mutant: BaseQuerySet.delete without its @transaction.atomic.
QuerySetDeleteUnwrapped(st, t, ids, o) == QuerySetDeleteBody(st, t, ids, o)

\* BaseQuerySet.delete under @transaction.atomic.
QuerySetDelete(st, t, ids, o) == Atomic(st.store, QuerySetDeleteBody(st, t, ids, o))

\* for one_to_one in related_cascade_fields["one_to_one"]
CascadeOneToOne(st, row, rels, user) ==
    IF rels = <<>> \/ ~Ok(st) THEN st
    ELSE LET rel == Head(rels)
             x == CHOOSE r \in RelatedOf(st.store, row, rel) : TRUE
             done == IF RelatedOf(st.store, row, rel) = {} THEN st
                     ELSE IF IsBaseModel(rel.child)
                     THEN ModelDelete(st, x.id, CascadeOptions(user))
                     ELSE CollectorDelete(st, rel.child, {x.id})
         IN CascadeOneToOne(done, row, Tail(rels), user)

\* Mutant: the related collections are left to the ORM's own delete.
CascadeManyToOneRaw(st, row, rels, user) ==
    IF rels = <<>> \/ ~Ok(st) THEN st
    ELSE LET rel == Head(rels)
             ids == Ids(RelatedOf(st.store, row, rel))
         IN CascadeManyToOneRaw(CollectorDelete(st, rel.child, ids), row, Tail(rels), user)

\* for many_to_one in related_cascade_fields["many_to_one"]
CascadeManyToOne(st, row, rels, user) ==
    IF rels = <<>> \/ ~Ok(st) THEN st
    ELSE LET rel == Head(rels)
             ids == Ids(RelatedOf(st.store, row, rel))
             done == IF IsBaseModel(rel.child)
                     THEN QuerySetDelete(st, rel.child, ids, CascadeOptions(user))
                     ELSE CollectorDelete(st, rel.child, ids)
         IN CascadeManyToOne(done, row, Tail(rels), user)

\* if not skip_pre_delete: self.pre_delete(user=user)
DeletePreHook(st, row, o, user) ==
    IF o.skip_pre THEN st
    ELSE IF PreDeleteRefuses({row})
    THEN Raise(Emit(st, "pre_delete", row.type, {row.id}, user), "ValidationError")
    ELSE Emit(st, "pre_delete", row.type, {row.id}, user)

\* if not skip_signal_send: base_delete.send(sender=..., obj=self, user=user)
DeleteNotify(st, row, o, user) ==
    IF Ok(st) /\ o.skip_signal # "true"
    THEN Emit(st, "delete", row.type, {row.id}, user) ELSE st

\* The two cascade loops over self._related_cascade_fields, which is
\* evaluated once, before the first of them.
DeleteCascade(st, row, user) ==
    CascadeManyToOne(CascadeOneToOne(st, row, RelatedCascadeFields(st.store, row).one_to_one, user),
                     row, RelatedCascadeFields(st.store, row).many_to_one, user)

\* The physical delete of the entity, reached when nothing has raised.
DeleteRemove(st, row) == IF Ok(st) THEN ModelDeleteRemove(st, row) ELSE st

\* if not skip_post_delete: self.post_delete(user=user)
DeletePostHook(st, row, o, user) ==
    IF Ok(st) /\ ~o.skip_post
    THEN Emit(st, "post_delete", row.type, {row.id}, user) ELSE st

\* Mutant: the delete notification is sent after the physical delete.
ModelDeleteBodyLateSignal(st, id, o) ==
    IF ActorMissing(o) THEN Raise(st, "KeyError:log_user")
    ELSE DeletePostHook(
             DeleteNotify(
                 DeleteRemove(
                     DeleteCascade(
                         DeletePreHook(st, Row(st.store, id), o, ResolveUser(o)),
                         Row(st.store, id), ResolveUser(o)),
                     Row(st.store, id)),
                 Row(st.store, id), o, ResolveUser(o)),
             Row(st.store, id), o, ResolveUser(o))

\* The body of BaseModel.delete, statement by statement: the pre-delete
\* hook, the notification, the cascades, the physical delete, the
\* post-delete hook.
ModelDeleteBody(st, id, o) ==
    IF ActorMissing(o) THEN Raise(st, "KeyError:log_user")
    ELSE DeletePostHook(
             DeleteRemove(
                 DeleteCascade(
                     DeleteNotify(
                         DeletePreHook(st, Row(st.store, id), o, ResolveUser(o)),
                         Row(st.store, id), o, ResolveUser(o)),
                     Row(st.store, id), ResolveUser(o)),
                 Row(st.store, id)),
             Row(st.store, id), o, ResolveUser(o))

\* Mutant: a related type is listed once for every member that has rows of
\* it, and not once for the collection.
RelatedTypesRepeated(s, ids) ==
    LET members == SeqOf(ids)
        ofRow(row) ==
            LET f == RelatedCascadeFields(s, row)
                some == SelectSeq(f.many_to_one, LAMBDA r : RelatedOf(s, row, r) # {})
                both == f.one_to_one \o some
            IN [i \in DOMAIN both |-> both[i].child]
        all[i \in 0..Len(members)] ==
            IF i = 0 THEN <<>> ELSE all[i - 1] \o ofRow(Row(s, members[i]))
    IN all[Len(members)]

\* related_objects: the related types in the order the loop over the
\* members first meets one of their rows.
RelatedTypes(s, ids) ==
    LET members == SeqOf(ids)
        ofRow(row) ==
            LET f == RelatedCascadeFields(s, row)
                some == SelectSeq(f.many_to_one, LAMBDA r : RelatedOf(s, row, r) # {})
                both == f.one_to_one \o some
            IN [i \in DOMAIN both |-> both[i].child]
        all[i \in 0..Len(members)] ==
            IF i = 0 THEN <<>> ELSE all[i - 1] \o ofRow(Row(s, members[i]))
    IN Dedup(all[Len(members)])

\* for model, pks in related_objects.items()
CascadeGroups(st, ids, types, user) ==
    IF types = <<>> \/ ~Ok(st) THEN st
    ELSE LET t == Head(types)
             pks == {r.id : r \in {x \in st.store : x.type = t /\ x.parent \in ids}}
             done == IF IsBaseModel(t)
                     THEN QuerySetDelete(st, t, pks, CascadeOptions(user))
                     ELSE CollectorDelete(st, t, pks)
         IN CascadeGroups(done, ids, Tail(types), user)

\* if not skip_pre_delete: self.model.bulk_pre_delete(self, user)
BulkDeletePreHook(st, t, ids, o, user) ==
    IF o.skip_pre THEN st
    ELSE IF PreDeleteRefuses({r \in st.store : r.id \in ids})
    THEN Raise(Emit(st, "bulk_pre_delete", t, ids, user), "ValidationError")
    ELSE Emit(st, "bulk_pre_delete", t, ids, user)

\* related_objects is collected and each of its groups deleted.
BulkDeleteCascade(st, ids, user) ==
    IF Ok(st) THEN CascadeGroups(st, ids, RelatedTypes(st.store, ids), user) ELSE st

\* if not skip_signal_send: base_bulk_delete.send(sender=..., objs=self, user=user)
BulkDeleteNotify(st, t, ids, o, user) ==
    IF Ok(st) /\ o.skip_signal # "true"
    THEN Emit(st, "bulk_delete", t, ids, user) ELSE st

\* delete = super().delete(*args, **kwargs)
BulkDeleteRemove(st, t, ids) == IF Ok(st) THEN CollectorDelete(st, t, ids) ELSE st

\* if not skip_post_delete: self.model.bulk_post_delete(self, user)
BulkDeletePostHook(st, t, ids, o, user) ==
    IF Ok(st) /\ ~o.skip_post
    THEN Emit(st, "bulk_post_delete", t, ids, user) ELSE st

\* The body of BaseQuerySet.delete over the members `ids` of type t.
QuerySetDeleteBody(st, t, ids, o) ==
    IF ActorMissing(o) THEN Raise(st, "KeyError:log_user")
    ELSE BulkDeletePostHook(
             BulkDeleteRemove(
                 BulkDeleteNotify(
                     BulkDeleteCascade(
                         BulkDeletePreHook(st, t, ids, o, ResolveUser(o)),
                         ids, ResolveUser(o)),
                     t, ids, o, ResolveUser(o)),
                 t, ids),
             t, ids, o, ResolveUser(o))

\* ------------------------------------------------------------------------
\* BaseQuerySet.get_or_create, update_or_create and bulk_update
\* ------------------------------------------------------------------------

\* Mutant: only the actor is handed on, the other options take their defaults.
ForwardedActorOnly(o) ==
    [no_user |-> FALSE, log_user |-> ResolveUser(o), clean_mode |-> "full",
     skip_pre |-> FALSE, skip_post |-> FALSE, skip_signal |-> o.skip_signal]

\* The keyword arguments get_or_create and update_or_create hand to the
\* wrapped create / save: the resolved actor as _base_log_user (None when
\* _base_no_user was given) and the caller's other options.
ForwardedOptions(o) == [o EXCEPT !.no_user = FALSE, !.log_user = ResolveUser(o)]

\* self.get(**kwargs): the rows of the type with the looked-up name.
GetMatches(s, t, key) == {r \in s : r.type = t /\ r.name = key}

\* A default that is a zero-argument callable, and the value it produces.
Callables == {"lambda: a"}

\* Mutant: a callable default is stored as it is, not called.
DefaultValueUncalled(v) == v

\* v() if callable(v) else v
DefaultValue(v) == IF v \in Callables THEN "a" ELSE v

\* _extract_model_params: the lookup, overridden by the defaults (the
\* callables among them are resolved before the create).
ModelParams(t, key, dflt) ==
    [id |-> 0, type |-> t, parent |-> 0, active |-> FALSE,
     name |-> IF dflt = "unset" THEN key ELSE DefaultValue(dflt)]

\* return obj, created
Returns(st, pk, created) ==
    IF Ok(st) THEN [st EXCEPT !.ret = [obj |-> pk, created |-> created]] ELSE st

\* _create_object_from_params: the wrapped create inside a savepoint.  The
\* lookup that follows an IntegrityError finds nothing when the calls come
\* one at a time, and the error is raised again.
CreateObjectFromParams(st, t, key, dflt, o) ==
    Returns(Atomic(st.store,
                   SaveBody(st, ModelParams(t, key, dflt), ForwardedOptions(o), "none")),
            st.next, TRUE)

\* The body of BaseQuerySet.get_or_create.
GetOrCreateBody(st, t, key, dflt, o) ==
    IF ActorMissing(o) THEN Raise(st, "KeyError:log_user")
    ELSE IF ManyToManyUnacknowledged(t, o) THEN Raise(st, "KeyError:skip_signal_send")
    ELSE IF Cardinality(GetMatches(st.store, t, key)) > 1
    THEN Raise(st, "MultipleObjectsReturned")
    ELSE IF GetMatches(st.store, t, key) # {}
    THEN Returns(st, (CHOOSE r \in GetMatches(st.store, t, key) : TRUE).id, FALSE)
    ELSE CreateObjectFromParams(st, t, key, dflt, o)

\* setattr(obj, k, v) for the defaults; obj.save(using=self.db, **base_kwargs)
UpdateFound(st, row, dflt, o) ==
    Returns(SaveBody(st, [row EXCEPT !.name = IF dflt = "unset" THEN @ ELSE DefaultValue(dflt)],
                     ForwardedOptions(o), "none"),
            row.id, FALSE)

\* The body of BaseQuerySet.update_or_create.
UpdateOrCreateBody(st, t, key, dflt, o) ==
    IF ActorMissing(o) THEN Raise(st, "KeyError:log_user")
    ELSE IF ManyToManyUnacknowledged(t, o) THEN Raise(st, "KeyError:skip_signal_send")
    ELSE IF Cardinality(GetMatches(st.store, t, key)) > 1
    THEN Raise(st, "MultipleObjectsReturned")
    ELSE IF GetMatches(st.store, t, key) # {}
    THEN UpdateFound(st, CHOOSE r \in GetMatches(st.store, t, key) : TRUE, dflt, o)
    ELSE CreateObjectFromParams(st, t, key, dflt, o)

\* The keys of a sequence of instances.
PksOf(objs) == {objs[i].id : i \in DOMAIN objs}

\* The UPDATE of one batch: each row of the batch's keys takes the value its
\* instance carries (CASE WHEN pk = ... THEN ...).
BatchWrite(st, t, objs) ==
    LET hit == {r \in st.store : r.type = t /\ r.id \in PksOf(objs)}
        new(r) == (CHOOSE x \in {objs[i] : i \in DOMAIN objs} : x.id = r.id).name
    IN Emit([st EXCEPT !.store = (@ \ hit) \cup {[r EXCEPT !.name = new(r)] : r \in hit}],
            "write", t, Ids(hit), None)

BatchRows(st, t, objs) == {r \in st.store : r.type = t /\ r.id \in PksOf(objs)}

BatchPostHook(st, t, objs, user) ==
    IF Ok(st) THEN Emit(st, "bulk_post_save", t, Ids(BatchRows(st, t, objs)), user) ELSE st

BatchClean(st, t, objs) == CleanMode(st, "full", BatchRows(st, t, objs), t)

\* self.filter(pk__in=pks).update(**update_kwargs): the wrapped update of
\* BaseQuerySet, with _base_log_user and _base_skip_signal_send=True and the
\* defaults of the other options.
BatchUpdate(st, t, objs, user) ==
    Atomic(st.store,
           BatchPostHook(
               BatchClean(
                   BatchWrite(Emit(st, "bulk_pre_save", t, Ids(BatchRows(st, t, objs)), user),
                              t, objs),
                   t, objs),
               t, objs, user))

RECURSIVE BulkUpdateBatches(_, _, _, _, _)
\* for pks, update_kwargs in updates: one wrapped update per batch.
BulkUpdateBatches(st, t, objs, size, user) ==
    IF objs = <<>> \/ ~Ok(st) THEN st
    ELSE BulkUpdateBatches(
             BatchUpdate(st, t, SubSeq(objs, 1, IF size < Len(objs) THEN size ELSE Len(objs)), user),
             t, SubSeq(objs, (IF size < Len(objs) THEN size ELSE Len(objs)) + 1, Len(objs)),
             size, user)

\* BaseQuerySet._bulk_update.  batch_size 0 stands for None; the backend
\* puts no limit of its own on a batch.
InnerBulkUpdate(st, t, objs, fields, batch_size, user) ==
    IF batch_size < 0 THEN Raise(st, "ValueError:batch_size")
    ELSE IF fields = <<>> THEN Raise(st, "ValueError:fields")
    ELSE IF 0 \in PksOf(objs) THEN Raise(st, "ValueError:pk")
    ELSE BulkUpdateBatches(st, t, objs, IF batch_size = 0 THEN Len(objs) ELSE batch_size, user)

BulkUpdatePreHook(st, t, objs, o) ==
    IF o.skip_pre THEN st ELSE Emit(st, "bulk_pre_save", t, PksOf(objs), ResolveUser(o))

BulkUpdateClean(st, t, objs, o) ==
    IF Ok(st) THEN CleanMode(st, o.clean_mode, BatchRows(st, t, objs), t) ELSE st

BulkUpdateNotify(st, t, objs, o) ==
    IF Ok(st) /\ SendsSignal(o)
    THEN Emit(st, "bulk_update", t, Ids(BatchRows(st, t, objs)), ResolveUser(o)) ELSE st

BulkUpdatePostHook(st, t, objs, o) ==
    IF Ok(st) /\ ~o.skip_post
    THEN Emit(st, "bulk_post_save", t, Ids(BatchRows(st, t, objs)), ResolveUser(o)) ELSE st

\* The body of BaseQuerySet.bulk_update, statement by statement.
BulkUpdateBody(st, t, objs, fields, batch_size, o) ==
    IF ActorMissing(o) THEN Raise(st, "KeyError:log_user")
    ELSE BulkUpdatePostHook(
             BulkUpdateNotify(
                 BulkUpdateClean(
                     InnerBulkUpdate(BulkUpdatePreHook(st, t, objs, o),
                                     t, objs, fields, batch_size, ResolveUser(o)),
                     t, objs, o),
                 t, objs, o),
             t, objs, o)

\* ------------------------------------------------------------------------
\* Inputs
\* ------------------------------------------------------------------------

CleanModes == {"full", "basic", "skip", "bogus"}

\* The _base_* keyword arguments of one call.  Passing _base_log_user along
\* with _base_no_user is left out: the unused argument would reach the ORM.
Options ==
    {o \in [no_user : BOOLEAN, log_user : Users \cup {"unset"}, clean_mode : CleanModes,
            skip_pre : BOOLEAN, skip_post : BOOLEAN, skip_signal : {"unset", "true", "false"}] :
        ~(o.no_user /\ o.log_user # "unset")}

SaveFaults == {"none", "pre_save", "write", "subscriber", "post_save"}

\* The options of a call that passes only _base_no_user=True.
PlainOptions ==
    [no_user |-> TRUE, log_user |-> "unset", clean_mode |-> "full",
     skip_pre |-> FALSE, skip_post |-> FALSE, skip_signal |-> "unset"]

\* The types without relations, and those of the cascade tree.
FlatTypes == {"Team", "Tag"}
TreeTypes == Types \ {"Tag"}

\* The never persisted instances (self.pk is None) a caller can build.
NewInstances(types, names) ==
    {[id |-> 0, type |-> t, parent |-> p, active |-> a, name |-> nm] :
        t \in types, p \in 0..MaxId, a \in BOOLEAN, nm \in names}

\* A foreign key points to a row of the parent type; only guarded types
\* carry is_active.
ValidNew(s, inst) ==
    /\ IF ParentType(inst.type) = "" THEN inst.parent = 0
       ELSE \E r \in s : r.id = inst.parent /\ r.type = ParentType(inst.type)
    /\ inst.active => inst.type \in GuardedTypes

NoCall == [op |-> "none", trace |-> <<>>, err |-> "", before |-> {}]

NoSetup == [unique |-> FALSE, seeded |-> FALSE]

\* The calls of Spec and SpecDelete come one at a time: no caller is in a
\* transaction of its own.
Sequential == UNCHANGED <<setup, tx, locks>>

Init ==
    /\ store = {}
    /\ nextId = 1
    /\ last = NoCall
    /\ setup = NoSetup
    /\ tx = <<>>
    /\ locks = {}

\* No call is in progress: the previous one has returned to its caller.
Idle == last.op = "none"

Called(op, subject, o, fault, r) ==
    [op |-> op, subject |-> subject, opts |-> o, fault |-> fault,
     trace |-> r.trace, err |-> r.err, ret |-> r.ret, before |-> store]

\* obj.save(...) on a never persisted instance (Manager.create builds the
\* instance and calls the same save).  A type that is no BaseModel has the
\* ORM's save alone.
SaveNewWithin(max, insts, opts, faults) ==
    /\ Idle
    /\ nextId <= max
    /\ \E inst \in insts, o \in opts, fault \in faults :
        /\ ValidNew(store, inst)
        /\ LET r == IF IsBaseModel(inst.type)
                    THEN ModelSaveCall(store, nextId, inst, o, fault)
                    ELSE Atomic(store, ModelSave(Begin(store, nextId), inst, fault))
           IN /\ store' = r.store
              /\ nextId' = IF Ok(r) THEN r.next ELSE nextId
              /\ last' = Called(IF IsBaseModel(inst.type) THEN "save" ELSE "orm_save",
                                inst, o, fault, r)
              /\ Sequential

SaveNewOf(insts, opts, faults) == SaveNewWithin(MaxId, insts, opts, faults)

\* obj.save(...) on an instance loaded from the store, its name reassigned.
SaveExistingOf(types, opts, faults) ==
    /\ Idle
    /\ \E row \in store, nm \in Names, o \in opts, fault \in faults :
        /\ row.type \in types
        /\ LET inst == [row EXCEPT !.name = nm]
               r == ModelSaveCall(store, nextId, inst, o, fault)
           IN /\ store' = r.store
              /\ nextId' = nextId
              /\ last' = Called("save", inst, o, fault, r)
              /\ Sequential

\* The _base_* keyword arguments a delete reads (it reads no clean_mode).
DeleteOptions == {o \in Options : o.clean_mode = "full" /\ o.skip_signal # "false"}

\* obj.delete(...) on an entity of a BaseModel type.
EntityDelete ==
    /\ Idle
    /\ \E row \in store, o \in DeleteOptions :
        /\ IsBaseModel(row.type)
        /\ LET r == ModelDelete(Begin(store, nextId), row.id, o)
           IN /\ store' = r.store
              /\ nextId' = nextId
              /\ last' = Called("delete", row, o, "none", r)
              /\ Sequential

\* Model.objects.filter(pk__in=ids).delete(...) on a BaseModel type.
CollectionDeleteOf(types) ==
    /\ Idle
    /\ \E t \in types, o \in DeleteOptions :
        /\ IsBaseModel(t)
        /\ \E ids \in SUBSET Ids(OfType(store, t)) :
            LET r == QuerySetDelete(Begin(store, nextId), t, ids, o)
            IN /\ store' = r.store
               /\ nextId' = nextId
               /\ last' = Called("qs_delete", [type |-> t, ids |-> ids], o, "none", r)
               /\ Sequential

CollectionDelete == CollectionDeleteOf(TreeTypes)

\* The rows the delete scenarios start from: plain creates of tree types.
TreeInstances ==
    {[id |-> 0, type |-> t, parent |-> p, active |-> a, name |-> "a"] :
        t \in TreeTypes, p \in 0..MaxTreeId, a \in BOOLEAN}

Populate == SaveNewWithin(MaxTreeId, TreeInstances, {PlainOptions}, {"none"})

SaveNew == SaveNewOf(NewInstances(FlatTypes, Names), Options, SaveFaults)
SaveExisting == SaveExistingOf(FlatTypes, Options, SaveFaults)

\* The query sets and batches the callers build.
QuerySets == [type : FlatTypes, name : Names \cup {"*"}]
Batches == UNION {[1..n -> Names] : n \in 1..MaxBatch}

\* Model.objects.filter(...).update(name=value, ...)
Update ==
    /\ Idle
    /\ \E qs \in QuerySets, value \in Names, o \in Options :
        LET r == QuerySetUpdateCall(store, nextId, qs, value, o)
        IN /\ store' = r.store
           /\ nextId' = nextId
           /\ last' = Called("update", [qs |-> qs, value |-> value], o, "none", r)
           /\ Sequential

\* Model.objects.bulk_create([...], ...)
BulkCreate ==
    /\ Idle
    /\ \E t \in FlatTypes, names \in Batches, o \in Options, manager \in {"unset", "objects"} :
        /\ nextId + Len(names) - 1 <= MaxId
        /\ LET r == QuerySetBulkCreateCall(store, nextId, t, names, o, manager)
           IN /\ store' = r.store
              /\ nextId' = IF Ok(r) THEN r.next ELSE nextId
              /\ last' = Called("bulk_create", [type |-> t, names |-> names,
                                                manager |-> manager], o, "none", r)
              /\ Sequential

\* The lookups and defaults of get_or_create / update_or_create.
Defaults == Names \cup Callables \cup {"unset"}

\* Model.objects.get_or_create(name=key, defaults={...}, ...)
GetOrCreateOf(types, opts) ==
    /\ Idle
    /\ \E t \in types, key \in Names, dflt \in Defaults, o \in opts :
        /\ GetMatches(store, t, key) # {} \/ nextId <= MaxId
        /\ LET r == Atomic(store, GetOrCreateBody(Begin(store, nextId), t, key, dflt, o))
           IN /\ store' = r.store
              /\ nextId' = IF Ok(r) THEN r.next ELSE nextId
              /\ last' = Called("get_or_create", [type |-> t, key |-> key, dflt |-> dflt],
                                o, "none", r)
              /\ Sequential

\* Model.objects.update_or_create(name=key, defaults={...}, ...)
UpdateOrCreateOf(types, opts) ==
    /\ Idle
    /\ \E t \in types, key \in Names, dflt \in Defaults, o \in opts :
        /\ GetMatches(store, t, key) # {} \/ nextId <= MaxId
        /\ LET r == Atomic(store, UpdateOrCreateBody(Begin(store, nextId), t, key, dflt, o))
           IN /\ store' = r.store
              /\ nextId' = IF Ok(r) THEN r.next ELSE nextId
              /\ last' = Called("update_or_create", [type |-> t, key |-> key, dflt |-> dflt],
                                o, "none", r)
              /\ Sequential

GetOrCreate == GetOrCreateOf(FlatTypes, Options)
UpdateOrCreate == UpdateOrCreateOf(FlatTypes, Options)

\* The fields and batch_size arguments of bulk_update (0 stands for None),
\* and whether a never persisted instance is among the objects.
BulkUpdateArgs ==
    {[fields |-> <<"name">>, batch_size |-> 0, unsaved |-> FALSE],
     [fields |-> <<"name">>, batch_size |-> 1, unsaved |-> FALSE],
     [fields |-> <<>>, batch_size |-> 0, unsaved |-> FALSE],
     [fields |-> <<"name">>, batch_size |-> -1, unsaved |-> FALSE],
     [fields |-> <<"name">>, batch_size |-> 0, unsaved |-> TRUE]}

\* The keys of the rows handed to bulk_update, in key order.
BulkUpdateObjs(s, t) ==
    {SeqOf(ids) : ids \in {x \in SUBSET Ids(OfType(s, t)) : x # {} /\ Cardinality(x) <= MaxBatch}}

\* The instances handed to bulk_update: rows loaded from the store with
\* their name reassigned, with or without a never persisted instance last.
Loaded(s, t, ids, nm, unsaved) ==
    [i \in DOMAIN ids |-> [Row(s, ids[i]) EXCEPT !.name = nm]]
        \o (IF unsaved THEN <<ModelParams(t, nm, "unset")>> ELSE <<>>)

\* Model.objects.bulk_update(objs, fields, batch_size, ...)
BulkUpdate ==
    /\ Idle
    /\ \E t \in FlatTypes, nm \in Names, a \in BulkUpdateArgs, o \in Options :
        \E ids \in BulkUpdateObjs(store, t) :
           LET objs == Loaded(store, t, ids, nm, a.unsaved)
               r == Atomic(store, BulkUpdateBody(Begin(store, nextId), t, objs,
                                                 a.fields, a.batch_size, o))
           IN /\ store' = r.store
              /\ nextId' = nextId
              /\ last' = Called("bulk_update", [type |-> t, objs |-> objs, args |-> a],
                                o, "none", r)
              /\ Sequential

FlatCollectionDelete == CollectionDeleteOf(FlatTypes)

\* The options of a call that names its actor, or declares it has none.
ActorOptions == {PlainOptions, [PlainOptions EXCEPT !.no_user = FALSE, !.log_user = "alice"]}

\* get_or_create / update_or_create on the root type of the cascade tree.
TreeGetOrCreate == GetOrCreateOf({"Team"}, ActorOptions)
TreeUpdateOrCreate == UpdateOrCreateOf({"Team"}, ActorOptions)

\* The call returns: its result or exception is handed to the caller.
Return ==
    /\ ~Idle
    /\ last' = NoCall
    /\ UNCHANGED <<store, nextId>>
    /\ Sequential

Next ==
    \/ SaveNew
    \/ SaveExisting
    \/ Update
    \/ BulkCreate
    \/ GetOrCreate
    \/ UpdateOrCreate
    \/ BulkUpdate
    \/ EntityDelete
    \/ FlatCollectionDelete
    \/ Return

Spec == Init /\ [][Next]_vars

NextDelete ==
    \/ Populate
    \/ EntityDelete
    \/ CollectionDelete
    \/ TreeGetOrCreate
    \/ TreeUpdateOrCreate
    \/ Return

SpecDelete == Init /\ [][NextDelete]_vars

\* ------------------------------------------------------------------------
\* BaseQuerySet.update_or_create under concurrent callers
\* ------------------------------------------------------------------------
\* Each caller runs Player.objects.update_or_create(name=Key, team=<team 1>,
\* defaults={"is_active": v}, ...) in a transaction of its own, on a store
\* with READ COMMITTED isolation (the PostgreSQL of tests/conftest.py): a
\* statement sees the rows committed when it runs, a row lock is held until
\* its owner's transaction ends, and a caller moves one statement at a time.

Callers == 1..NCallers

\* The lookup key the callers race on.
Key == "a"

TeamRow == [id |-> 1, type |-> "Team", parent |-> 0, active |-> FALSE, name |-> "t"]
SeedRow == [id |-> 2, type |-> "Player", parent |-> 1, active |-> FALSE, name |-> Key]

\* Mutant: the lookup never finds the row.
LookupNothing(s, key) == {}

\* self.get(**kwargs): the committed rows that match the lookup.
Lookup(s, key) == {r \in s : r.type = "Player" /\ r.parent = 1 /\ r.name = key}

LockedByOther(id, p) == \E l \in locks : l[1] = id /\ l[2] # p

\* The keys of the rows other callers have inserted and not yet committed.
PendingInserts(p) ==
    {r.name : r \in UNION {tx[q].pending \ {x \in tx[q].pending : x.id \in Ids(store)} :
                              q \in Callers \ {p}}}

InitUpsert ==
    /\ setup \in [unique : BOOLEAN, seeded : BOOLEAN]
    /\ store = IF setup.seeded THEN {TeamRow, SeedRow} ELSE {TeamRow}
    /\ nextId = 3
    /\ last = NoCall
    /\ tx \in [Callers -> [pc : {"get"}, value : BOOLEAN, mode : {"full", "skip"},
                           obj : {0}, pending : {{}}, created : {FALSE}]]
    /\ locks = {}

\* The caller's transaction ends in an exception: its writes are undone and
\* its locks released.
Abort(p, e) ==
    /\ tx' = [tx EXCEPT ![p].pc = e, ![p].pending = {}]
    /\ locks' = {l \in locks : l[2] # p}

\* obj = self.select_for_update().get(**kwargs)
\* (and, after an IntegrityError, the same query in _create_object_from_params)
UocLockedGet(p, notFound) ==
    LET hit == Lookup(store, Key)
    IN /\ \A r \in hit : ~LockedByOther(r.id, p)
       /\ IF hit = {}
          THEN IF notFound = "raise" THEN Abort(p, "IntegrityError")
               ELSE tx' = [tx EXCEPT ![p].pc = notFound] /\ locks' = locks
          ELSE IF Cardinality(hit) > 1 THEN Abort(p, "MultipleObjectsReturned")
          ELSE /\ tx' = [tx EXCEPT ![p].pc = "save", ![p].obj = (CHOOSE r \in hit : TRUE).id]
               /\ locks' = locks \cup {<<r.id, p>> : r \in hit}
       /\ UNCHANGED <<store, nextId, last, setup>>

UocGet(p) == tx[p].pc = "get" /\ UocLockedGet(p, "create")

UocReget(p) == tx[p].pc = "reget" /\ UocLockedGet(p, "raise")

\* obj, created = self._create_object_from_params(kwargs, params, lock=True):
\* the wrapped create.  With a unique index on the key, full_clean's
\* validate_unique or the INSERT itself meets a committed row of the key,
\* and the INSERT waits for an uncommitted one.
UocCreate(p) ==
    /\ tx[p].pc = "create"
    /\ setup.unique => Key \notin PendingInserts(p)
    /\ IF setup.unique /\ Lookup(store, Key) # {}
       THEN /\ IF tx[p].mode = "full" THEN Abort(p, "ValidationError")
               ELSE tx' = [tx EXCEPT ![p].pc = "reget"] /\ locks' = locks
            /\ nextId' = nextId
       ELSE /\ tx' = [tx EXCEPT ![p].pc = "commit", ![p].created = TRUE,
                                ![p].pending = {[id |-> nextId, type |-> "Player", parent |-> 1,
                                                 active |-> tx[p].value, name |-> Key]}]
            /\ nextId' = nextId + 1
            /\ locks' = locks
    /\ UNCHANGED <<store, last, setup>>

\* setattr(obj, k, v) for the defaults; obj.save(using=self.db, **base_kwargs)
UocSave(p) ==
    /\ tx[p].pc = "save"
    /\ \E r \in store :
          /\ r.id = tx[p].obj
          /\ tx' = [tx EXCEPT ![p].pc = "commit",
                              ![p].pending = {[r EXCEPT !.active = tx[p].value]}]
    /\ UNCHANGED <<store, nextId, last, setup, locks>>

\* The outermost transaction.atomic block is left: COMMIT.
UocCommit(p) ==
    /\ tx[p].pc = "commit"
    /\ store' = {r \in store : r.id \notin Ids(tx[p].pending)} \cup tx[p].pending
    /\ tx' = [tx EXCEPT ![p].pc = "done", ![p].pending = {}]
    /\ locks' = {l \in locks : l[2] # p}
    /\ UNCHANGED <<nextId, last, setup>>

NextUpsert ==
    \E p \in Callers :
        \/ UocGet(p)
        \/ UocCreate(p)
        \/ UocReget(p)
        \/ UocSave(p)
        \/ UocCommit(p)

SpecUpsert == InitUpsert /\ [][NextUpsert]_vars

\* The rows of the key the callers race on.
KeyRows == {r \in store : r.type = "Player" /\ r.name = Key}

\* Every caller has committed or failed.
AllReturned == \A p \in Callers : tx[p].pc \notin {"get", "create", "reget", "save", "commit"}

\* C1 as stated: whatever the store holds at the start (no row or one row of
\* the key), once all concurrent callers of update_or_create have returned
\* the store holds at most one row of the key.
C1_Original ==
    AllReturned => Cardinality(KeyRows) <= 1

\* C1 (amended): when the store holds one row of the key at the start, or
\* enforces uniqueness of the key, it never holds two rows of the key.
C1_NoDuplicateRow ==
    (setup.seeded \/ setup.unique) => Cardinality(KeyRows) <= 1

\* Two callers raced on a key the store had one row of: both have committed
\* their update and the row is still the only one.
C1_Witness ==
    /\ setup.seeded
    /\ ~setup.unique
    /\ \A p \in Callers : tx[p].pc = "done" /\ ~tx[p].created
    /\ \E p, q \in Callers : tx[p].value # tx[q].value
    /\ Cardinality(KeyRows) = 1

\* ------------------------------------------------------------------------
\* Vocabulary of the properties
\* ------------------------------------------------------------------------

DeleteOps == {"delete", "qs_delete"}
PreDeleteHooks == {"pre_delete", "bulk_pre_delete"}
PostDeleteHooks == {"post_delete", "bulk_post_delete"}
DeleteSignals == {"delete", "bulk_delete"}

\* The entities a delete call was asked to delete.
Roots == IF last.op = "delete" THEN {last.subject.id}
         ELSE IF last.op = "qs_delete" THEN last.subject.ids ELSE {}

RECURSIVE Reach(_, _)
\* The keys reachable from `ids` along cascade relations in store s.
Reach(s, ids) ==
    LET kids == {r.id : r \in {x \in s : x.parent \in ids}} \ ids
    IN IF kids = {} THEN ids ELSE Reach(s, ids \cup kids)

RECURSIVE WrappedReach(_, _)
\* The same, along chains of BaseModel types only.
WrappedReach(s, ids) ==
    LET kids == {r.id : r \in {x \in s : x.parent \in ids /\ IsBaseModel(x.type)}} \ ids
    IN IF kids = {} THEN ids ELSE WrappedReach(s, ids \cup kids)

\* The positions of the trace where x is physically removed.
RemovedAt(x) == {i \in DOMAIN last.trace : last.trace[i].ev = "remove" /\ x \in last.trace[i].subj}
Removed == {x \in Ids(last.before) : RemovedAt(x) # {}}

\* Some event of the given kinds names x before position i.
NamedBefore(x, kinds, i) ==
    \E k \in DOMAIN last.trace :
        k < i /\ last.trace[k].ev \in kinds /\ x \in last.trace[k].subj

\* The call ended in the pre-delete hook of a cascade target.
CascadeHookRaised ==
    /\ last.op \in DeleteOps
    /\ last.err = "ValidationError"
    /\ last.trace # <<>>
    /\ last.trace[Len(last.trace)].ev \in PreDeleteHooks
    /\ last.trace[Len(last.trace)].subj \cap Roots = {}

\* Some cascade target that the wrapped path reaches refuses deletion.
CascadeTargetRefuses ==
    \E r \in last.before :
        /\ r.id \in WrappedReach(last.before, Roots) \ Roots
        /\ PreDeleteRefuses({r})

\* ------------------------------------------------------------------------
\* Properties of delete
\* ------------------------------------------------------------------------

\* C2: when the pre-delete hook of a cascade target (at any depth) raises
\* during Entity.delete, the call fails and the store is exactly as before
\* the call: root, failing target and already processed siblings are present.
C2_CascadeFailureRollsBack ==
    last.op = "delete" =>
        /\ CascadeHookRaised => store = last.before
        /\ (/\ CascadeTargetRefuses
            /\ ~ActorMissing(last.opts)
            /\ (last.opts.skip_pre \/ ~PreDeleteRefuses({last.subject}))) =>
               CascadeHookRaised /\ store = last.before

\* A delete of a Team failed in the hook of a later sibling after an earlier
\* sibling had been removed inside the transaction.
C2_Witness ==
    /\ last.op = "delete"
    /\ CascadeHookRaised
    /\ \E i \in DOMAIN last.trace : last.trace[i].ev = "remove"
    /\ store = last.before
    /\ Cardinality(store) = 3

\* C3: after a successful Entity.delete of e nothing reachable from e along
\* cascade relations is left in the store, and every cascade target was
\* physically removed before the entity that owns it.
C3_CascadeComplete ==
    (last.op = "delete" /\ last.err = "") =>
        /\ Reach(last.before, Roots) \cap Ids(store) = {}
        /\ \A c \in last.before :
              (c.id \in Reach(last.before, Roots) /\ c.parent \in Reach(last.before, Roots)) =>
                  /\ RemovedAt(c.id) # {}
                  /\ RemovedAt(c.parent) # {}
                  /\ \A i \in RemovedAt(c.id), j \in RemovedAt(c.parent) : i < j

\* A successful delete of the root of a three-level chain.
C3_Witness ==
    /\ last.op = "delete"
    /\ last.err = ""
    /\ Cardinality(Reach(last.before, Roots)) = 3
    /\ \E c \in last.before : c.parent \in Reach(last.before, Roots) \ Roots
    /\ store = {}

\* C4 as stated: every entity of a BaseModel type that a delete call removes
\* (the call suppressing nothing) had a pre-delete hook invoked for it and a
\* delete or bulk-delete notification published for it before its removal,
\* whatever types lie between it and the root.
C4_Original ==
    (last.op \in DeleteOps /\ ~last.opts.skip_pre /\ last.opts.skip_signal # "true") =>
        \A r \in last.before :
            (r.id \in Removed /\ IsBaseModel(r.type)) =>
                \A i \in RemovedAt(r.id) :
                    /\ NamedBefore(r.id, PreDeleteHooks, i)
                    /\ NamedBefore(r.id, DeleteSignals, i)

\* C4 (amended): every removed entity that the root reaches through BaseModel
\* types only had its pre-delete hook invoked and its delete or bulk-delete
\* notification published before its removal; at the root level unless the
\* call's own options suppress them.
C4_WrappedPath ==
    last.op \in DeleteOps =>
        \A x \in Removed \cap WrappedReach(last.before, Roots) :
            \A i \in RemovedAt(x) :
                /\ (x \notin Roots \/ ~last.opts.skip_pre) =>
                       NamedBefore(x, PreDeleteHooks, i)
                /\ (x \notin Roots \/ last.opts.skip_signal # "true") =>
                       NamedBefore(x, DeleteSignals, i)

\* Team, inactive Player and its PlayerTraining: deleting the Team removed
\* all three and published a notification for each.
C4_Witness ==
    /\ last.op = "delete"
    /\ last.err = ""
    /\ last.subject.type = "Team"
    /\ {r.type : r \in last.before} = {"Team", "Player", "PlayerTraining"}
    /\ store = {}
    /\ \A r \in last.before :
          \E k \in DOMAIN last.trace :
              last.trace[k].ev \in DeleteSignals /\ r.id \in last.trace[k].subj

\* C8: within one delete call at either level the pre-delete hook comes
\* before the level's notification, the notification is published while its
\* subject is still in the store, the level's physical removal comes after
\* its notification and after everything done to its cascade targets (and
\* not at all when a cascade delete failed), and the post-delete hook runs
\* after the removal.
SameLevel(a, b) == a.sender = b.sender /\ a.subj = b.subj

C8_DeleteOrdering ==
    last.op \in DeleteOps =>
        LET T == last.trace
            rootEv(kinds) == {i \in DOMAIN T : T[i].ev \in kinds /\ T[i].subj = Roots}
        IN /\ \A i \in DOMAIN T : T[i].ev \in DeleteSignals =>
                 /\ T[i].live
                 /\ \A k \in DOMAIN T :
                        (T[k].ev \in PreDeleteHooks /\ SameLevel(T[k], T[i])) => k < i
                 /\ \A k \in DOMAIN T :
                        (T[k].ev = "remove" /\ T[k].subj \cap T[i].subj # {}) => i < k
           /\ \A i \in DOMAIN T : (T[i].ev = "remove" /\ T[i].sender # "") =>
                 \A k \in DOMAIN T :
                     (T[k].subj # {} /\ T[k].subj \subseteq Reach(last.before, T[i].subj) \ T[i].subj)
                         => k < i
           /\ \A i \in DOMAIN T : T[i].ev \in PostDeleteHooks =>
                 \A x \in T[i].subj : \E k \in RemovedAt(x) : k < i
           /\ CascadeHookRaised => Removed \cap Roots = {}
           /\ (last.err = "" /\ Roots # {}) =>
                 /\ ~last.opts.skip_pre => rootEv(PreDeleteHooks) # {}
                 /\ last.opts.skip_signal # "true" => rootEv(DeleteSignals) # {}
                 /\ rootEv({"remove"}) # {}
                 /\ ~last.opts.skip_post => rootEv(PostDeleteHooks) # {}

\* A successful collection delete that suppressed nothing and had a cascade
\* target to delete first.
C8_Witness ==
    /\ last.op = "qs_delete"
    /\ last.err = ""
    /\ Roots # {}
    /\ Reach(last.before, Roots) # Roots
    /\ ~last.opts.skip_pre /\ ~last.opts.skip_post /\ last.opts.skip_signal # "true"
    /\ \E i, j \in DOMAIN last.trace :
          /\ i < j
          /\ last.trace[i].ev = "bulk_delete" /\ last.trace[i].subj = Roots
          /\ last.trace[j].ev = "bulk_post_delete" /\ last.trace[j].subj = Roots

\* ------------------------------------------------------------------------
\* Properties of save
\* ------------------------------------------------------------------------

EventsOf(kinds) == {i \in DOMAIN last.trace : last.trace[i].ev \in kinds}

\* The row a save wrote: the instance under its key.
Saved(i) ==
    /\ Cardinality(last.trace[i].subj) = 1
    /\ \A pk \in last.trace[i].subj :
          /\ last.subject.id # 0 => pk = last.subject.id
          /\ last.subject.id = 0 => pk \notin Ids(last.before)
          /\ [last.subject EXCEPT !.id = pk] \in store

C6_SaveFailureRollsBack ==
    last.op = "save" =>
        /\ last.err # "" => store = last.before
        /\ (last.fault = "pre_save" /\ EventsOf({"pre_save"}) # {}) => last.err = "HookError"
        /\ (last.opts.clean_mode = "full" /\ EventsOf({"full_clean"}) # {}
               /\ FullCleanFails(last.before, last.subject)) => last.err = "ValidationError"
        /\ last.fault = "write" => last.err # "" /\ EventsOf({"write"}) = {}
        /\ (last.fault = "subscriber" /\ EventsOf({"create", "update"}) # {}) =>
               last.err = "SubscriberError"
        /\ (last.fault = "post_save" /\ EventsOf({"post_save"}) # {}) => last.err = "HookError"

\* A save failed in its post_save hook after the row had been written, and
\* the store holds nothing of it.
C6_Witness ==
    /\ last.op = "save"
    /\ last.err = "HookError"
    /\ last.fault = "post_save"
    /\ EventsOf({"write"}) # {}
    /\ store = last.before
    /\ last.subject \notin store

\* C7: the steps of one save come in the order pre_save hook, validation,
\* write, create/update notification, post_save hook; a step is left out
\* only by its own option; a validation error comes before any write.
StepRank(ev) ==
    CASE ev = "pre_save" -> 1
      [] ev \in {"full_clean", "clean"} -> 2
      [] ev = "write" -> 3
      [] ev \in {"create", "update"} -> 4
      [] ev = "post_save" -> 5
      [] OTHER -> 0

C7_SaveOrdering ==
    last.op = "save" =>
        /\ \A i, j \in DOMAIN last.trace :
              i < j => /\ StepRank(last.trace[i].ev) < StepRank(last.trace[j].ev)
                       /\ StepRank(last.trace[i].ev) > 0
        /\ last.err = "ValidationError" => EventsOf({"write"}) = {}
        /\ last.err = "" =>
              /\ (EventsOf({"pre_save"}) # {}) <=> ~last.opts.skip_pre
              /\ (EventsOf({"full_clean"}) # {}) <=> last.opts.clean_mode = "full"
              /\ (EventsOf({"clean"}) # {}) <=> last.opts.clean_mode = "basic"
              /\ EventsOf({"write"}) # {}
              /\ (EventsOf({"create", "update"}) # {}) <=> SendsSignal(last.opts)
              /\ (EventsOf({"post_save"}) # {}) <=> ~last.opts.skip_post

\* A save that skipped nothing ran all five steps.
C7_Witness ==
    /\ last.op = "save"
    /\ last.err = ""
    /\ Len(last.trace) = 5
    /\ last.trace[1].ev = "pre_save"
    /\ last.trace[5].ev = "post_save"

\* C9: save on a type with a many-to-many relation without skip_signal_send
\* fails with a configuration error before any hook, validation, write or
\* notification.
C9_ManyToManyGuard ==
    (/\ last.op = "save"
     /\ HasManyToMany(last.subject.type)
     /\ last.opts.skip_signal = "unset") =>
        /\ last.err \in {"KeyError:log_user", "KeyError:skip_signal_send"}
        /\ ~ActorMissing(last.opts) => last.err = "KeyError:skip_signal_send"
        /\ last.trace = <<>>
        /\ store = last.before

\* alice saved a Tag without deciding on skip_signal_send.
C9_Witness ==
    /\ last.op = "save"
    /\ last.subject.type = "Tag"
    /\ last.opts.log_user = "alice"
    /\ last.opts.skip_signal = "unset"
    /\ last.err = "KeyError:skip_signal_send"

\* ------------------------------------------------------------------------
\* Configuration errors
\* ------------------------------------------------------------------------

ConfigurationErrors ==
    {"KeyError:log_user", "KeyError:skip_signal_send", "KeyError:objects",
     "ValueError:clean_mode"}

\* C10: every configuration error of a mutating operation is raised before
\* the operation has written a row to the store.
C10_ConfigErrorBeforeWrite ==
    last.err \in ConfigurationErrors =>
        \A i \in EventsOf({"write"}) : last.trace[i].subj = {}

\* ------------------------------------------------------------------------
\* The acting user
\* ------------------------------------------------------------------------

\* The operations both components wrap.
WrappedOps ==
    {"save", "delete", "qs_delete", "update", "bulk_create", "get_or_create",
     "update_or_create", "bulk_update"}

\* C11: a wrapped operation called without _base_no_user and without
\* _base_log_user fails with a configuration error before any hook has run,
\* any row has been written and any notification has been published; called
\* with _base_no_user it does not fail for the missing actor, and every hook
\* and notification of the call gets an absent actor.
C11_ActorRequired ==
    last.op \in WrappedOps =>
        /\ (~last.opts.no_user /\ last.opts.log_user = "unset") =>
              /\ last.err \in {"KeyError:log_user", "KeyError:objects"}
              /\ last.trace = <<>>
              /\ store = last.before
        /\ last.opts.no_user =>
              /\ last.err # "KeyError:log_user"
              /\ \A i \in DOMAIN last.trace : last.trace[i].user = None

\* get_or_create is called without an actor for a name the store does not
\* hold: the call fails at once.
C11_Witness ==
    /\ last.op = "get_or_create"
    /\ ~last.opts.no_user /\ last.opts.log_user = "unset"
    /\ ~HasManyToMany(last.subject.type)
    /\ GetMatches(last.before, last.subject.type, last.subject.key) = {}
    /\ last.err = "KeyError:log_user"

\* ------------------------------------------------------------------------
\* The many-to-many guard across the operations
\* ------------------------------------------------------------------------

\* The entity type a call is made on.
CallType ==
    IF last.op = "update" THEN last.subject.qs.type
    ELSE IF last.op \in WrappedOps THEN last.subject.type
    ELSE ""

\* C12: a wrapped operation on a type with a many-to-many relation (for a
\* collection delete: over at least one entity), called without
\* _base_skip_signal_send, fails with a configuration error.
C12_ManyToManyEveryOperation ==
    (/\ last.op \in WrappedOps
     /\ HasManyToMany(CallType)
     /\ last.op = "qs_delete" => last.subject.ids # {}
     /\ last.opts.skip_signal = "unset") => last.err \in ConfigurationErrors

\* ------------------------------------------------------------------------
\* BaseModel.__init__: the pairing of the per-entity and the bulk hooks
\* ------------------------------------------------------------------------

\* for name in ("pre_save", "post_save", "pre_delete", "post_delete")
HookFamilies == <<"pre_save", "post_save", "pre_delete", "post_delete">>

\* A class definition: for each family, where the per-entity hook and the
\* bulk_ hook the class resolves to are defined.
HookOrigins == {"BaseModel", "own"}
ClassDefs ==
    [{HookFamilies[i] : i \in DOMAIN HookFamilies} -> [single : HookOrigins, bulk : HookOrigins]]

\* Mutant: only an overridden per-entity hook without its bulk hook is caught.
HookPairBrokenSingleOnly(single, bulk) == single /\ ~bulk

\* (single_func_overriden or bulk_func_overriden)
\*     and not (single_func_overriden and bulk_func_overriden)
HookPairBroken(single, bulk) == (single \/ bulk) /\ ~(single /\ bulk)

RECURSIVE CheckHooks(_, _)
\* The loop of __init__ over the families: the first broken pair raises.
CheckHooks(cls, names) ==
    IF names = <<>> THEN ""
    ELSE IF HookPairBroken(cls[Head(names)].single # "BaseModel",
                           cls[Head(names)].bulk # "BaseModel")
    THEN "NotImplementedError"
    ELSE CheckHooks(cls, Tail(names))

\* A class is defined ...
InitClass ==
    /\ store = {}
    /\ nextId = 1
    /\ last \in [op : {"class"}, cls : ClassDefs]
    /\ setup = NoSetup
    /\ tx = <<>>
    /\ locks = {}

\* ... and instantiated: cls(**kwargs).
Instantiate ==
    /\ last.op = "class"
    /\ last' = [op |-> "init", cls |-> last.cls, err |-> CheckHooks(last.cls, HookFamilies)]
    /\ UNCHANGED <<store, nextId>>
    /\ Sequential

SpecInstantiate == InitClass /\ [][Instantiate]_vars

\* C13: instantiating an entity type succeeds exactly when, in each of the
\* four hook families, the per-entity hook and the bulk_ hook are both
\* overridden or both left at BaseModel's; otherwise it fails with
\* NotImplementedError.
C13_HookPairing ==
    last.op = "init" =>
        /\ last.err \in {"", "NotImplementedError"}
        /\ last.err = "" <=>
              \A i \in DOMAIN HookFamilies :
                  (last.cls[HookFamilies[i]].single = "own")
                      <=> (last.cls[HookFamilies[i]].bulk = "own")

\* A class with pre_delete and bulk_pre_delete both overridden (as Player)
\* but bulk_post_delete overridden alone is instantiated, and fails.
C13_Witness ==
    /\ last.op = "init"
    /\ last.cls["pre_delete"] = [single |-> "own", bulk |-> "own"]
    /\ last.cls["post_delete"] = [single |-> "BaseModel", bulk |-> "own"]
    /\ last.cls["pre_save"] = [single |-> "BaseModel", bulk |-> "BaseModel"]
    /\ last.cls["post_save"] = [single |-> "BaseModel", bulk |-> "BaseModel"]
    /\ last.err = "NotImplementedError"

\* ------------------------------------------------------------------------
\* bulk_create and validation
\* ------------------------------------------------------------------------

\* The positions of the batch whose record full_clean rejects.
InvalidInBatch ==
    {i \in DOMAIN last.subject.names : last.subject.names[i] = ""}

\* C14: a bulk_create with clean_mode full over a batch in which some
\* record, at whatever position, fails validation fails, and once it has
\* returned the store is as it was before the call.
C14_BulkCreateAllOrNothing ==
    (/\ last.op = "bulk_create"
     /\ last.opts.clean_mode = "full"
     /\ InvalidInBatch # {}) =>
        /\ last.err # ""
        /\ store = last.before

\* A batch whose first record is valid and whose second is not reaches the
\* validation and is refused; nothing of it is in the store.
C14_Witness ==
    /\ last.op = "bulk_create"
    /\ last.opts.clean_mode = "full"
    /\ last.subject.names = <<"a", "">>
    /\ last.err = "ValidationError"
    /\ EventsOf({"write"}) # {}
    /\ store = last.before

\* C15: in a bulk_create with clean_mode full the records are validated
\* before the batch insert is issued, so that no insert is issued for a batch
\* that holds an invalid record.
C15_ValidatedBeforeInsert ==
    (last.op = "bulk_create" /\ last.opts.clean_mode = "full") =>
        /\ \A w \in EventsOf({"write"}) :
              \E v \in EventsOf({"full_clean"}) : v < w
        /\ InvalidInBatch # {} => EventsOf({"write"}) = {}

\* ------------------------------------------------------------------------
\* The collection an update notifies and validates
\* ------------------------------------------------------------------------

\* The rows the UPDATE statement of the call modified: the members of the
\* collection when the call was made.
Modified == Ids(Members(last.before, last.subject.qs))

\* C16: a successful update that does not suppress notifications publishes
\* exactly one update event; the event carries exactly the entities the
\* update modified, which hold the new value; and the validation of the call
\* covers the same entities.
C16_UpdateEvent ==
    (last.op = "update" /\ last.err = "" /\ SendsSignal(last.opts)) =>
        /\ Cardinality(EventsOf({"update"})) = 1
        /\ \A i \in EventsOf({"update"}) :
              /\ last.trace[i].subj = Modified
              /\ \A r \in store : r.id \in last.trace[i].subj => r.name = last.subject.value
        /\ \A i \in EventsOf({"full_clean", "clean"}) : last.trace[i].subj = Modified

\* ------------------------------------------------------------------------
\* Collection delete: the groups of cascade targets
\* ------------------------------------------------------------------------

\* The types of the rows among `ids` before the call.
TypesOf(ids) == {r.type : r \in {x \in last.before : x.id \in ids}}

\* The keys among `ids` of the rows of type t before the call.
OfTypeIn(ids, t) == {r.id : r \in {x \in last.before : x.id \in ids /\ x.type = t}}

\* The positions of the events of the given kinds sent for type t.
EventsFor(kinds, t) == {i \in EventsOf(kinds) : last.trace[i].sender = t}

RootRows == {r \in last.before : r.id \in Roots}

\* C18: when a collection delete fails in the batch pre-delete hook of a
\* cascade-related type, the store is exactly as before the call - members,
\* targets of every member and groups deleted earlier in the call included;
\* and it does fail so whenever a cascade target the wrapped path reaches is
\* active and the collection's own hook lets the call pass.
C18_CollectionDeleteRollsBack ==
    last.op = "qs_delete" =>
        /\ CascadeHookRaised =>
              /\ store = last.before
              /\ Reach(last.before, Roots) \subseteq Ids(store)
        /\ (/\ CascadeTargetRefuses
            /\ ~(~last.opts.no_user /\ last.opts.log_user = "unset")
            /\ (last.opts.skip_pre \/ ~PreDeleteRefuses(RootRows))) =>
               CascadeHookRaised /\ store = last.before

\* Two Teams are deleted; the Note of one had been removed inside the
\* transaction when the hook refused the active Player of the other.
C18_Witness ==
    /\ last.op = "qs_delete"
    /\ last.subject.type = "Team"
    /\ Cardinality(Roots) = 2
    /\ CascadeHookRaised
    /\ last.trace[Len(last.trace)].ev = "bulk_pre_delete"
    /\ last.trace[Len(last.trace)].sender = "Player"
    /\ \E i \in EventsOf({"remove"}) : last.trace[i].sender = "Note"
    /\ \E n, q \in last.before :
          n.type = "Note" /\ q.type = "Player" /\ q.active /\ n.parent # q.parent
    /\ store = last.before

\* ------------------------------------------------------------------------
\* The actor of the notifications
\* ------------------------------------------------------------------------

Notifications == {"create", "update", "delete", "bulk_create", "bulk_delete", "bulk_update"}

\* C19: every notification published during a public call - those of the
\* cascade deletes at any depth and the one of the create or save inside
\* get_or_create / update_or_create included - carries the actor of that
\* call: its _base_log_user, or None when _base_no_user was given.
C19_NotificationActor ==
    last.op \in WrappedOps =>
        \A i \in EventsOf(Notifications) :
            last.trace[i].user = IF last.opts.no_user THEN None ELSE last.opts.log_user

\* alice deletes a Team whose Player has a PlayerTraining: the notifications
\* of the Team, of the Player and of the PlayerTraining two levels down all
\* name alice.
C19_Witness ==
    /\ last.op = "delete"
    /\ last.err = ""
    /\ last.opts.log_user = "alice"
    /\ last.subject.type = "Team"
    /\ \E i \in EventsFor(DeleteSignals, "Player") : last.trace[i].user = "alice"
    /\ \E i \in EventsFor(DeleteSignals, "PlayerTraining") : last.trace[i].user = "alice"
    /\ \E i \in EventsFor(DeleteSignals, "Team") : last.trace[i].user = "alice"

\* ------------------------------------------------------------------------
\* BaseQuerySet.get_or_create under concurrent callers
\* ------------------------------------------------------------------------
\* Each caller runs Player.objects.get_or_create(name=Key, team=<team 1>, ...)
\* in a transaction of its own, on the store of the update_or_create
\* scenario.  The create and the commit are the ones of update_or_create;
\* the two lookups differ: they are plain reads.

\* Mutant: the lookup is made with select_for_update().
GetLocksForUpdate(hit, p) == {<<r.id, p>> : r \in hit}

\* self.get(**kwargs) takes no row lock.
GetLocks(hit, p) == {}

\* return self.get(**kwargs), False
\* (and, after an IntegrityError, the same query in _create_object_from_params)
GocPlainGet(p, notFound) ==
    LET hit == Lookup(store, Key)
    IN /\ IF hit = {}
          THEN IF notFound = "raise" THEN Abort(p, "IntegrityError")
               ELSE tx' = [tx EXCEPT ![p].pc = notFound] /\ locks' = locks
          ELSE IF Cardinality(hit) > 1 THEN Abort(p, "MultipleObjectsReturned")
          ELSE /\ tx' = [tx EXCEPT ![p].pc = "commit", ![p].obj = (CHOOSE r \in hit : TRUE).id]
               /\ locks' = locks \cup GetLocks(hit, p)
       /\ UNCHANGED <<store, nextId, last, setup>>

GocGet(p) == tx[p].pc = "get" /\ GocPlainGet(p, "create")

GocReget(p) == tx[p].pc = "reget" /\ GocPlainGet(p, "raise")

\* return self._create_object_from_params(kwargs, params)
GocCreate(p) == UocCreate(p)

\* The transaction.atomic of get_or_create is left: COMMIT.
GocCommit(p) == UocCommit(p)

NextGetOrCreate ==
    \E p \in Callers :
        \/ GocGet(p)
        \/ GocCreate(p)
        \/ GocReget(p)
        \/ GocCommit(p)

SpecGetOrCreate == InitUpsert /\ [][NextGetOrCreate]_vars

\* The callers whose create went through.
Creators == {p \in Callers : tx[p].created /\ tx[p].pc = "done"}

\* C20: get_or_create takes no lock; on a store without a uniqueness
\* constraint on the key every caller that found no row inserts one of its
\* own, so that the store ends with as many rows of the key as it had plus
\* one per such caller - two callers racing from no row leave two.
C20_GetOrCreateRace ==
    /\ locks = {}
    /\ (~setup.unique /\ AllReturned) =>
          /\ \A p \in Callers : tx[p].pc \in {"done", "MultipleObjectsReturned"}
          /\ Cardinality(KeyRows) =
                 (IF setup.seeded THEN 1 ELSE 0) + Cardinality(Creators)

\* From no row and no uniqueness constraint, two callers both found nothing
\* and both inserted: the store holds two rows of the key.
C20_Witness ==
    /\ ~setup.unique /\ ~setup.seeded
    /\ Cardinality(Creators) >= 2
    /\ Cardinality(KeyRows) >= 2

\* ------------------------------------------------------------------------
\* Properties of get_or_create and update_or_create, one call at a time
\* ------------------------------------------------------------------------

\* The calls of get_or_create and update_or_create alone, from an empty store.
NextLookup ==
    \/ GetOrCreate
    \/ UpdateOrCreate
    \/ Return

SpecLookup == Init /\ [][NextLookup]_vars

\* The rows the call's lookup matched in the store it started from.
Matched == GetMatches(last.before, last.subject.type, last.subject.key)

\* The call got past its reading of the options.
WellConfigured ==
    /\ ~ActorMissing(last.opts)
    /\ ~ManyToManyUnacknowledged(last.subject.type, last.opts)

\* The name the created row carries: the default when one is given, called
\* first when it is a callable, else the looked-up name.
ExpectedName ==
    IF last.subject.dflt = "unset" THEN last.subject.key
    ELSE IF last.subject.dflt \in Callables THEN "a" ELSE last.subject.dflt

\* The call added exactly one row, the one it returned.
AddedOne ==
    /\ last.ret.created
    /\ last.ret.obj \notin Ids(last.before)
    /\ store = last.before \cup
                   {[id |-> last.ret.obj, type |-> last.subject.type, parent |-> 0,
                     active |-> FALSE, name |-> ExpectedName]}

\* The hooks, the validation and the notification of a wrapped save ran as
\* the options of the call ask, with the actor of the call.
RanAsAsked(signal) ==
    /\ (EventsOf({"pre_save"}) # {}) <=> ~last.opts.skip_pre
    /\ (EventsOf({"post_save"}) # {}) <=> ~last.opts.skip_post
    /\ (EventsOf({"full_clean"}) # {}) <=> last.opts.clean_mode = "full"
    /\ (EventsOf({"clean"}) # {}) <=> last.opts.clean_mode = "basic"
    /\ Cardinality(EventsOf({signal})) = IF SendsSignal(last.opts) THEN 1 ELSE 0
    /\ EventsOf(Notifications \ {signal}) = {}
    /\ \A i \in EventsOf({"pre_save", "post_save", signal}) :
          /\ last.trace[i].user = ResolveUser(last.opts)
          /\ last.trace[i].sender = last.subject.type

\* C21: a get_or_create whose lookup matches one entity returns it with
\* created = false, leaves the store as it was, runs no hook and publishes
\* nothing; one whose lookup matches nothing and that returns has added
\* exactly one entity through the wrapped create, run with the call's actor,
\* clean_mode, skip_pre_save, skip_post_save and skip_signal_send, and
\* returns created = true.
C21_GetOrCreate ==
    (last.op = "get_or_create" /\ WellConfigured) =>
        /\ Cardinality(Matched) = 1 =>
              /\ last.err = ""
              /\ last.ret = [obj |-> (CHOOSE r \in Matched : TRUE).id, created |-> FALSE]
              /\ store = last.before
              /\ last.trace = <<>>
        /\ (Matched = {} /\ last.err = "") =>
              /\ AddedOne
              /\ RanAsAsked("create")

\* A get_or_create that found nothing created its row with the post-save
\* hook and the notification suppressed and basic validation, as asked.
C21_Witness ==
    /\ last.op = "get_or_create"
    /\ last.err = ""
    /\ Matched = {}
    /\ last.ret.created
    /\ last.opts.skip_post /\ last.opts.skip_signal = "true"
    /\ last.opts.clean_mode = "basic"
    /\ ~last.opts.skip_pre /\ last.opts.log_user = "alice"
    /\ EventsOf({"pre_save"}) # {}

\* The one row the lookup matched.
Found == CHOOSE r \in Matched : TRUE

\* C22: an update_or_create that returns and whose lookup matched one entity
\* leaves the number of rows as it was, has set the field named in defaults
\* to the given value - the result of the call when the value is a callable
\* - has saved the entity through the wrapped save, so that the notification
\* published is an update event and not a create event, and returns
\* created = false; one whose lookup matched nothing has added exactly one
\* row, published a create event and returns created = true.
C22_UpdateOrCreate ==
    (last.op = "update_or_create" /\ WellConfigured /\ last.err = "") =>
        /\ Cardinality(Matched) = 1 =>
              /\ Cardinality(store) = Cardinality(last.before)
              /\ store = (last.before \ {Found}) \cup
                             {[Found EXCEPT !.name = IF last.subject.dflt = "unset"
                                                     THEN @ ELSE ExpectedName]}
              /\ last.ret = [obj |-> Found.id, created |-> FALSE]
              /\ RanAsAsked("update")
              /\ \A i \in EventsOf({"update"}) : last.trace[i].subj = {Found.id}
        /\ Matched = {} =>
              /\ AddedOne
              /\ RanAsAsked("create")

\* An update_or_create found the entity of the empty name and gave it the
\* name its callable default produced; one update event was published.
C22_Witness ==
    /\ last.op = "update_or_create"
    /\ last.err = ""
    /\ Cardinality(Matched) = 1
    /\ last.subject.key = "" /\ last.subject.dflt \in Callables
    /\ [Found EXCEPT !.name = "a"] \in store
    /\ Cardinality(EventsOf({"update"})) = 1
    /\ ~last.ret.created

\* ------------------------------------------------------------------------
\* The created and updated timestamps
\* ------------------------------------------------------------------------
\* created = DateTimeField(auto_now_add=True), updated = DateTimeField(
\* auto_now=True).  The rows of this scenario are [id, created, updated]; 0
\* stands for None.  One instance is held in memory; the clock never goes
\* back.

\* Mutant: created behaves as an auto_now field.
AutoNowAddAlways(value, add, now) == now

\* auto_now_add: the field takes the clock when the row is inserted, and
\* the instance's own value otherwise.
AutoNowAdd(value, add, now) == IF add THEN now ELSE value

\* auto_now: the field takes the clock whenever it is written.
AutoNow(value, now) == now

\* Team(...): an instance that was never saved.
Unsaved == [id |-> 0, created |-> 0, updated |-> 0]

\* save(**kwargs) hands its keyword arguments on to Model.save: all fields
\* are written, or those of update_fields=["name"] alone.
SaveModes == {"all", "update_fields"}

\* The row super().save() writes for the instance.
Written(inst, exists, n, now) ==
    [id |-> IF inst.id = 0 THEN n ELSE inst.id,
     created |-> AutoNowAdd(inst.created, ~exists, now),
     updated |-> AutoNow(inst.updated, now)]

\* super().save(*args, **kwargs) within BaseModel.save, and a subscriber or
\* post_save hook that may raise after it.  The result: the store, the id
\* sequence, the instance and the exception.  The rollback takes the row
\* back, not the key the instance was given: that key is not handed out again.
TimestampSave(s, n, inst, now, mode, fault) ==
    LET exists == inst.id \in Ids(s)
        row == Written(inst, exists, n, now)
        same == [store |-> s, next |-> n, inst |-> inst, err |-> ""]
    IN IF mode = "update_fields"
       THEN IF inst.id = 0 THEN [same EXCEPT !.err = "ValueError"]
            ELSE IF ~exists THEN [same EXCEPT !.err = "DatabaseError"]
            ELSE IF fault THEN [same EXCEPT !.err = "SubscriberError"]
            ELSE same
       ELSE IF row.created = 0
       THEN [same EXCEPT !.inst.updated = row.updated, !.err = "IntegrityError"]
       ELSE IF fault
       THEN [same EXCEPT !.inst = row, !.err = "SubscriberError",
                         !.next = IF inst.id = 0 THEN n + 1 ELSE n]
       ELSE [store |-> {r \in s : r.id # row.id} \cup {row},
             next |-> IF inst.id = 0 THEN n + 1 ELSE n,
             inst |-> row, err |-> ""]

InitClock ==
    /\ store = {}
    /\ nextId = 1
    /\ last = [op |-> "construct", now |-> 1, inst |-> Unsaved, mode |-> "all",
               err |-> "", before |-> {}]
    /\ setup = NoSetup
    /\ tx = <<>>
    /\ locks = {}

\* Time passes.
Tick ==
    /\ last.now < MaxClock
    /\ last' = [last EXCEPT !.op = "tick", !.now = @ + 1]
    /\ UNCHANGED <<store, nextId>>
    /\ Sequential

\* Team(...) or Team(pk=...): a fresh instance, its timestamps not set.
Construct ==
    /\ \E pk \in {0} \cup Ids(store) :
          last' = [last EXCEPT !.op = "construct", !.inst = [Unsaved EXCEPT !.id = pk]]
    /\ UNCHANGED <<store, nextId>>
    /\ Sequential

\* Team.objects.get(pk=...): the instance is read from the store.
Load ==
    /\ \E row \in store : last' = [last EXCEPT !.op = "load", !.inst = row]
    /\ UNCHANGED <<store, nextId>>
    /\ Sequential

\* obj.save(...) at the current reading of the clock.
TimedSave ==
    /\ last.inst.id # 0 \/ nextId <= MaxId
    /\ \E mode \in SaveModes, fault \in BOOLEAN :
          LET r == TimestampSave(store, nextId, last.inst, last.now, mode, fault)
          IN /\ store' = r.store
             /\ nextId' = r.next
             /\ last' = [op |-> "save", now |-> last.now, inst |-> r.inst, mode |-> mode,
                         err |-> r.err, before |-> store]
    /\ Sequential

NextTimestamps ==
    \/ Tick
    \/ Construct
    \/ Load
    \/ TimedSave

SpecTimestamps == InitClock /\ [][NextTimestamps]_vars

\* The saved entity's row after the save and before it.
SavedRow == Row(store, last.inst.id)
RowBefore == Row(last.before, last.inst.id)
FirstSave == last.inst.id \notin Ids(last.before)

\* C23 as stated: every save that returns sets the entity's updated to the
\* clock, never to less than it was; the first gives created the clock and
\* every later one leaves created as it was.
C23_Original ==
    (last.op = "save" /\ last.err = "") =>
        /\ SavedRow.updated = last.now
        /\ FirstSave => SavedRow.created = last.now
        /\ ~FirstSave =>
              /\ SavedRow.updated >= RowBefore.updated
              /\ SavedRow.created = RowBefore.created

\* C23, amended: over the saves of an entity under a clock that does not go
\* back, updated never decreases and created, set to the clock by the first
\* save, is the same after every later save; updated is set to the clock by
\* every save that writes all fields, while a save restricted by
\* update_fields to other fields leaves it as it was.
C23_Timestamps ==
    (last.op = "save" /\ last.err = "") =>
        /\ last.mode = "all" => SavedRow.updated = last.now
        /\ FirstSave => SavedRow.created = last.now
        /\ ~FirstSave =>
              /\ SavedRow.updated >= RowBefore.updated
              /\ SavedRow.created = RowBefore.created
              /\ last.mode = "update_fields" => SavedRow = RowBefore

\* An entity first saved at 1 is saved again at 3: updated moves to 3,
\* created stays 1.
C23_Witness ==
    /\ last.op = "save"
    /\ last.err = ""
    /\ last.mode = "all"
    /\ ~FirstSave
    /\ RowBefore.created = 1 /\ RowBefore.updated < 3
    /\ SavedRow.created = 1 /\ SavedRow.updated = 3

\* ------------------------------------------------------------------------
\* makemigrations: the default_permissions check
\* ------------------------------------------------------------------------

\* The operations of a generated migration: CreateModel with and without
\* default_permissions among its options, and an operation of another class.
Operations ==
    {[kind |-> "CreateModel", name |-> "Team", options |-> {"ordering"}],
     [kind |-> "CreateModel", name |-> "Tag", options |-> {"default_permissions"}],
     [kind |-> "AddField", name |-> "Team", options |-> {}]}

SeqsUpTo(S, lo, hi) == UNION {[1..n -> S] : n \in lo..hi}

\* changes: for each app, in order, its migrations, each a list of operations.
\* The app label is the app's position.
Migrations == SeqsUpTo(Operations, 0, MaxOperations)
ChangeSets == SeqsUpTo(SeqsUpTo(Migrations, 1, MaxMigrations), 1, MaxApps)

\* Mutant: every operation without the option is refused, whatever its class.
LacksOptionAnyClass(operation) == "default_permissions" \notin operation.options

\* isinstance(operation, CreateModel)
\*     and "default_permissions" not in operation.options
LacksDefaultPermissions(operation) ==
    operation.kind = "CreateModel" /\ "default_permissions" \notin operation.options

\* The places <<app, migration, operation>> of a change set, in the order
\* the three nested loops visit them.
Places(changes) ==
    {p \in (DOMAIN changes) \X (1..MaxMigrations) \X (1..MaxOperations) :
        /\ p[2] \in DOMAIN changes[p[1]]
        /\ p[3] \in DOMAIN changes[p[1]][p[2]]}

OperationAt(changes, p) == changes[p[1]][p[2]][p[3]]

Earlier(p, q) ==
    \/ p[1] < q[1]
    \/ p[1] = q[1] /\ p[2] < q[2]
    \/ p[1] = q[1] /\ p[2] = q[2] /\ p[3] < q[3]

\* The loops stop at the first operation that is refused.
Refused(changes) ==
    {p \in Places(changes) : LacksDefaultPermissions(OperationAt(changes, p))}

FirstRefused(changes) ==
    CHOOSE p \in Refused(changes) : \A q \in Refused(changes) : q = p \/ Earlier(p, q)

\* The migration files of a change set: one for each migration of each app.
Files(changes) ==
    {f \in (DOMAIN changes) \X (1..MaxMigrations) : f[2] \in DOMAIN changes[f[1]]}

\* f"{migration.app_label}.{operation.name}"
Named(changes, p) == <<p[1], OperationAt(changes, p).name>>

\* Command.write_migration_files: the check over all migrations, then the
\* core command's write.
WriteMigrationFiles(changes, skip) ==
    IF ~skip /\ Refused(changes) # {}
    THEN [err |-> "ValueError", named |-> Named(changes, FirstRefused(changes)),
          written |-> {}]
    ELSE [err |-> "", named |-> <<0, "">>, written |-> Files(changes)]

\* The autodetector has produced a change set and the flag is read ...
InitMigrations ==
    /\ store = {}
    /\ nextId = 1
    /\ last \in [op : {"changes"}, changes : ChangeSets, skip : BOOLEAN]
    /\ setup = NoSetup
    /\ tx = <<>>
    /\ locks = {}

\* ... and handle() calls write_migration_files(changes).
WriteMigrations ==
    /\ last.op = "changes"
    /\ LET r == WriteMigrationFiles(last.changes, last.skip)
       IN last' = [op |-> "write", changes |-> last.changes, skip |-> last.skip,
                   err |-> r.err, named |-> r.named, written |-> r.written]
    /\ UNCHANGED <<store, nextId>>
    /\ Sequential

SpecMigrations == InitMigrations /\ [][WriteMigrations]_vars

\* The create-model operations of the change set that lack the option.
Lacking ==
    {p \in Places(last.changes) :
        /\ OperationAt(last.changes, p).kind = "CreateModel"
        /\ "default_permissions" \notin OperationAt(last.changes, p).options}

\* C24: without --skip-default-permissions-check the generation fails exactly
\* when some create-model operation of the change set lacks
\* default_permissions; the error names the app and type of such an
\* operation and no migration file is written.  With the flag the check
\* never fails.  Whenever it does not fail, every file is written.
C24_DefaultPermissionsCheck ==
    last.op = "write" =>
        /\ last.err \in {"", "ValueError"}
        /\ last.err = "ValueError" <=> (~last.skip /\ Lacking # {})
        /\ last.err = "ValueError" =>
              /\ last.written = {}
              /\ \E p \in Lacking : last.named = Named(last.changes, p)
        /\ last.err = "" => last.written = Files(last.changes)

\* The first app's migration creates Tag with the option; the second app's
\* second migration adds a field and then creates Team without it: the
\* error names the second app's Team and not even the first app's file is
\* written.
C24_Witness ==
    /\ last.op = "write"
    /\ ~last.skip
    /\ Len(last.changes) = 2
    /\ Lacking = {<<2, 2, 2>>}
    /\ OperationAt(last.changes, <<2, 2, 1>>).kind = "AddField"
    /\ \E p \in Places(last.changes) :
          p[1] = 1 /\ OperationAt(last.changes, p).name = "Tag"
    /\ last.err = "ValueError"
    /\ last.named = <<2, "Team">>
    /\ last.written = {}

\* ------------------------------------------------------------------------
\* Properties of bulk_update
\* ------------------------------------------------------------------------

\* The channels signals.py defines.
DefinedSignals == {"create", "update", "delete", "bulk_create", "bulk_delete"}

\* A bulk_update that returned, with its hooks, its validation and its
\* notification all asked for.
BulkUpdateDone ==
    /\ last.op = "bulk_update"
    /\ last.err = ""
    /\ ~last.opts.skip_pre /\ ~last.opts.skip_post
    /\ SendsSignal(last.opts)
    /\ last.opts.clean_mode \in {"full", "basic"}

\* C25: bulk_update runs the steps of update once per call, whatever the
\* number of batches: bulk_pre_save once, before any batch is written; all
\* batches written before the re-validation; the re-validation before the
\* one bulk-update notification, which goes out on a channel the signals
\* module defines, with no update event per batch; bulk_post_save once,
\* after all writes and the notification.
C25_BulkUpdateOrdering ==
    BulkUpdateDone =>
        /\ Cardinality(EventsOf({"bulk_pre_save"})) = 1
        /\ \A i \in EventsOf({"bulk_pre_save"}), w \in EventsOf({"write"}) : i < w
        /\ \A w \in EventsOf({"write"}), c \in EventsOf({"full_clean", "clean"}) : w < c
        /\ Cardinality(EventsOf({"bulk_update"})) = 1
        /\ EventsOf({"update"}) = {}
        /\ \A c \in EventsOf({"full_clean", "clean"}), s \in EventsOf({"bulk_update"}) : c < s
        /\ EventsOf(Notifications \ DefinedSignals) = {}
        /\ Cardinality(EventsOf({"bulk_post_save"})) = 1
        /\ \A p \in EventsOf({"bulk_post_save"}), x \in EventsOf({"write", "bulk_update"}) :
              x < p

\* ------------------------------------------------------------------------
\* BaseQuerySet._bulk_update: the batches
\* ------------------------------------------------------------------------
\* The objects are given by their keys (0: pk is None); batch_size is absent
\* or an integer; limit is what connections[self.db].ops.bulk_batch_size
\* answers.

BatchSizes ==
    {[given |-> FALSE, value |-> 0]} \cup {[given |-> TRUE, value |-> v] : v \in -1..MaxLimit}

Min(a, b) == IF a < b THEN a ELSE b

\* Mutant: the store's limit is used only when no batch_size is given.
BatchSizeUncapped(batch_size, limit) ==
    IF batch_size.given /\ batch_size.value # 0 THEN batch_size.value ELSE limit

\* batch_size = min(batch_size, max_batch_size) if batch_size else max_batch_size
BatchSize(batch_size, limit) ==
    IF batch_size.given /\ batch_size.value # 0
    THEN Min(batch_size.value, limit) ELSE limit

RECURSIVE Slices(_, _)
\* (objs[i:i + batch_size] for i in range(0, len(objs), batch_size))
Slices(objs, size) ==
    IF objs = <<>> THEN <<>>
    ELSE <<SubSeq(objs, 1, Min(size, Len(objs)))>>
             \o Slices(SubSeq(objs, Min(size, Len(objs)) + 1, Len(objs)), size)

\* _bulk_update up to its loop: the exception it raises, or the list
\* `updates` with the keys of one wrapped update per entry.
PlanUpdates(objs, fields, batch_size, limit) ==
    IF batch_size.given /\ batch_size.value < 0
    THEN [err |-> "ValueError:batch_size", updates |-> <<>>]
    ELSE IF fields = <<>> THEN [err |-> "ValueError:fields", updates |-> <<>>]
    ELSE IF \E i \in DOMAIN objs : objs[i] = 0 THEN [err |-> "ValueError:pk", updates |-> <<>>]
    ELSE [err |-> "", updates |-> Slices(objs, BatchSize(batch_size, limit))]

\* A caller has its objects, fields and batch_size, on a store with a limit ...
InitBatches ==
    /\ store = {}
    /\ nextId = 1
    /\ last \in [op : {"args"}, objs : SeqsUpTo(0..MaxObjs, 0, MaxObjs),
                 fields : {<<>>, <<"name">>}, batch_size : BatchSizes, limit : 1..MaxLimit]
    /\ setup = NoSetup
    /\ tx = <<>>
    /\ locks = {}

\* ... and _bulk_update(objs, fields, batch_size, user) is called.
PlanBatches ==
    /\ last.op = "args"
    /\ LET r == PlanUpdates(last.objs, last.fields, last.batch_size, last.limit)
       IN last' = [op |-> "_bulk_update", objs |-> last.objs, fields |-> last.fields,
                   batch_size |-> last.batch_size, limit |-> last.limit,
                   err |-> r.err, updates |-> r.updates]
    /\ UNCHANGED <<store, nextId>>
    /\ Sequential

SpecBatches == InitBatches /\ [][PlanBatches]_vars

RECURSIVE Concat(_)
Concat(ss) == IF ss = <<>> THEN <<>> ELSE Head(ss) \o Concat(Tail(ss))

\* The most objects one update may carry.
Cap ==
    IF last.batch_size.given /\ last.batch_size.value > 0
    THEN Min(last.batch_size.value, last.limit) ELSE last.limit

Rejected ==
    \/ last.batch_size.given /\ last.batch_size.value < 0
    \/ last.fields = <<>>
    \/ \E i \in DOMAIN last.objs : last.objs[i] = 0

\* C26: _bulk_update rejects a negative batch_size, an empty field list and
\* an object without a key before any update is issued; otherwise it issues
\* one update per batch, the batches being non-empty consecutive slices of
\* the objects that, put end to end, give the objects back in their order,
\* each of at most min(batch_size, limit) objects - limit when batch_size is
\* absent or 0.
C26_Batches ==
    last.op = "_bulk_update" =>
        /\ last.err # "" <=> Rejected
        /\ Rejected => last.updates = <<>>
        /\ ~Rejected =>
              /\ Concat(last.updates) = last.objs
              /\ \A i \in DOMAIN last.updates :
                    /\ last.updates[i] # <<>>
                    /\ Len(last.updates[i]) <= Cap

\* Three objects, batch_size 3 on a store whose limit is 2: two updates, of
\* two objects and of one.
C26_Witness ==
    /\ last.op = "_bulk_update"
    /\ last.err = ""
    /\ last.objs = <<1, 2, 3>>
    /\ last.batch_size = [given |-> TRUE, value |-> 3]
    /\ last.limit = 2
    /\ last.updates = << <<1, 2>>, <<3>> >>

\* ------------------------------------------------------------------------
\* The cascade recursion, call by call
\* ------------------------------------------------------------------------
\* The store is a set of row keys and `setup` the cascade references among
\* them: <<p, c>> says that row c points to row p with on_delete = CASCADE.
\* `tx` is the call stack: one frame per running delete, with the rows it
\* deletes and whether its cascade is still to be triggered.  A delete
\* triggers the deletes of its cascade targets before it removes anything.

Nodes == 1..MaxNodes

\* The interpreter gives up at this depth; no acyclic store of MaxNodes rows
\* nests its deletes that deep.
RecursionLimit == MaxNodes + 1

\* The rows that point to one of `ids`.
Referrers(graph, ids) == {c \in Nodes : \E p \in ids : <<p, c>> \in graph}

\* Mutant: rows whose delete is already running are not deleted again.
CascadeTargetsOnce(graph, ids, running) == Referrers(graph, ids) \ running

\* related_cascade_fields / related_objects: the rows a delete of `ids`
\* hands to the next delete.  What is already being deleted is not looked at.
CascadeTargets(graph, ids, running) == Referrers(graph, ids)

Running == UNION {tx[i].ids : i \in DOMAIN tx}

\* A store, its references and the entity to delete ...
InitCascade ==
    /\ store = Nodes
    /\ nextId = 1
    /\ last \in [op : {"call"}, root : Nodes]
    /\ setup \in SUBSET (Nodes \X Nodes)
    /\ tx = <<>>
    /\ locks = {}

\* ... obj.delete(...) is entered: pre_delete, the delete signal.
EnterDelete ==
    /\ last.op = "call"
    /\ last' = [op |-> "running", root |-> last.root]
    /\ tx' = <<[ids |-> {last.root}, cascaded |-> FALSE]>>
    /\ UNCHANGED <<store, nextId, setup, locks>>

\* The running delete calls the delete of its cascade targets, if it has any.
Descend ==
    /\ last.op = "running"
    /\ tx # <<>>
    /\ ~tx[Len(tx)].cascaded
    /\ LET targets == CascadeTargets(setup, tx[Len(tx)].ids, Running) \cap store
           here == [tx EXCEPT ![Len(tx)].cascaded = TRUE]
       IN IF targets = {}
          THEN tx' = here /\ last' = last /\ store' = store
          ELSE IF Len(tx) = RecursionLimit
          THEN tx' = <<>> /\ last' = [last EXCEPT !.op = "RecursionError"] /\ store' = Nodes
          ELSE tx' = Append(here, [ids |-> targets, cascaded |-> FALSE])
               /\ last' = last /\ store' = store
    /\ UNCHANGED <<nextId, setup, locks>>

\* The cascade of the running delete has returned: super().delete() removes
\* its rows and the call returns to its caller.
Unwind ==
    /\ last.op = "running"
    /\ tx # <<>>
    /\ tx[Len(tx)].cascaded
    /\ store' = store \ tx[Len(tx)].ids
    /\ tx' = SubSeq(tx, 1, Len(tx) - 1)
    /\ last' = IF Len(tx) = 1 THEN [last EXCEPT !.op = "returned"] ELSE last
    /\ UNCHANGED <<nextId, setup, locks>>

NextCascade ==
    \/ EnterDelete
    \/ Descend
    \/ Unwind

\* The interpreter keeps executing the call.
SpecCascade == InitCascade /\ [][NextCascade]_vars /\ WF_vars(NextCascade)

RECURSIVE Below(_, _, _)
\* The rows reached from `ids` along at most n references.
Below(graph, ids, n) ==
    IF n = 0 THEN ids ELSE Below(graph, ids \cup Referrers(graph, ids), n - 1)

\* Some row reached from `ids` is reached from its own referrers.
OnCycle(graph, ids) ==
    \E x \in Below(graph, ids, MaxNodes) : x \in Below(graph, Referrers(graph, {x}), MaxNodes)

\* C27: on a store whose cascade references have no cycle every delete
\* returns; nothing in the recursion looks for a cycle, and a delete that
\* reaches rows referring to each other in a cycle never returns: it nests
\* until the interpreter gives up.
C27_Termination ==
    /\ ~OnCycle(setup, Nodes) => <>(last.op = "returned")
    /\ ~OnCycle(setup, {last.root}) => <>(last.op = "returned")
    /\ OnCycle(setup, {last.root}) =>
          /\ [](last.op # "returned")
          /\ <>(last.op = "RecursionError")

\* Row 3 points to row 2, row 2 to row 1; the delete of row 1 nested three
\* deep and has returned, all three rows removed.
C27_Witness ==
    /\ last.op = "returned"
    /\ last.root = 1
    /\ {<<1, 2>>, <<2, 3>>} \subseteq setup
    /\ ~OnCycle(setup, Nodes)
    /\ {1, 2, 3} \cap store = {}

\* ------------------------------------------------------------------------
\* Notifications and rollback
\* ------------------------------------------------------------------------

\* The positions of the pre-delete hooks of the cascade targets.
CascadePreHooks ==
    {k \in EventsOf(PreDeleteHooks) : last.trace[k].subj \cap Roots = {}}

\* C28: when an Entity.delete that sends its notification fails in the
\* pre-delete hook of a cascade target, the delete event of the root was
\* delivered, with the call's actor, before the pre-delete hook of any
\* cascade target ran, and after the rollback the root is still in the store.
C28_NotificationSurvivesRollback ==
    (last.op = "delete" /\ CascadeHookRaised /\ last.opts.skip_signal # "true") =>
        /\ last.subject \in store
        /\ store = last.before
        /\ \E i \in EventsOf({"delete"}) :
              /\ last.trace[i].subj = {last.subject.id}
              /\ last.trace[i].sender = last.subject.type
              /\ last.trace[i].user = ResolveUser(last.opts)
              /\ \A k \in CascadePreHooks : i < k

\* alice's delete of a Team was refused by an active Player: the Team's
\* delete event went out, and the Team is still stored.
C28_Witness ==
    /\ last.op = "delete"
    /\ last.subject.type = "Team"
    /\ last.opts.log_user = "alice"
    /\ CascadeHookRaised
    /\ last.trace[Len(last.trace)].sender = "Player"
    /\ \E i \in EventsOf({"delete"}) : last.trace[i].subj = {last.subject.id}
    /\ last.subject \in store

\* ------------------------------------------------------------------------
\* The skip options of delete
\* ------------------------------------------------------------------------

\* Some event of the given kinds names x.
NamedIn(x, kinds) == \E k \in EventsOf(kinds) : x \in last.trace[k].subj

\* The call asked for no hook and no notification.
RootSuppressed ==
    last.opts.skip_pre /\ last.opts.skip_post /\ last.opts.skip_signal = "true"

\* C29: skip_pre_delete, skip_post_delete and skip_signal_send of a delete
\* call reach the root level only.  In a delete that returns, whatever the
\* call's options, every cascade target reached through wrapped deletes had
\* its pre-delete hook and its post-delete hook run and its delete or
\* bulk-delete notification published; the roots had theirs only as far as
\* the options ask.
C29_SkipOptionsRootOnly ==
    (last.op \in DeleteOps /\ last.err = "") =>
        /\ \A x \in WrappedReach(last.before, Roots) \ Roots :
              /\ NamedIn(x, PreDeleteHooks)
              /\ NamedIn(x, PostDeleteHooks)
              /\ NamedIn(x, DeleteSignals)
        /\ \A x \in Roots :
              /\ NamedIn(x, PreDeleteHooks) <=> ~last.opts.skip_pre
              /\ NamedIn(x, PostDeleteHooks) <=> ~last.opts.skip_post
              /\ NamedIn(x, DeleteSignals) <=> last.opts.skip_signal # "true"

\* A Team was deleted with all three options set: nothing was run or
\* published for the Team, while its Player and the Player's PlayerTraining
\* had their hooks run and their notifications published.
C29_Witness ==
    /\ last.op = "delete"
    /\ last.err = ""
    /\ last.subject.type = "Team"
    /\ RootSuppressed
    /\ \A k \in DOMAIN last.trace :
          last.trace[k].ev \in PreDeleteHooks \cup PostDeleteHooks \cup DeleteSignals
              => last.subject.id \notin last.trace[k].subj
    /\ \E p, q \in last.before :
          /\ p.type = "Player" /\ p.parent = last.subject.id
          /\ q.type = "PlayerTraining" /\ q.parent = p.id
          /\ NamedIn(p.id, PreDeleteHooks) /\ NamedIn(p.id, DeleteSignals)
          /\ NamedIn(q.id, PostDeleteHooks) /\ NamedIn(q.id, DeleteSignals)
====
